---- MODULE Spec2Model ----
(***************************************************************************)
(* Model of the calendar feed parser (parseICalEvents and its helpers) and *)
(* of the month-grid placement computation of CustomCalendar.              *)
(*                                                                         *)
(* Text is modelled character by character: a JavaScript string is a       *)
(* sequence of one-character strings.  A Date is a record of a local civil *)
(* day number (days since 1970-01-01) and the milliseconds elapsed in that *)
(* day; the local time zone is a fixed offset from UTC (no DST change).    *)
(***************************************************************************)
EXTENDS Integers, Sequences, FiniteSets, TLC

VARIABLES
    icalData,        \* parseICalEvents: the feed text
    lines,           \* parseICalEvents: icalData.split(/\r?\n/)
    i,               \* parseICalEvents: the loop index (0-based)
    currentEvent,    \* parseICalEvents: the block being accumulated, or NoEvent
    events,          \* parseICalEvents: the output list
    pc,              \* parseICalEvents: "loop" or "done"
    folded,          \* the feed text with one of its lines folded
    foldedEvents,    \* parseICalEvents(folded)
    plain,           \* a text before the feed's escaping
    escaped,         \* the text as the feed carries it
    unescaped,       \* unescapeICalText(escaped)
    upc,             \* "plain", "escaped" or "unescaped"
    tzOffset,        \* minutes the local zone is ahead of UTC
    now,             \* the Date new Date() returns
    currentDate,     \* CustomCalendar: the currentDate state
    weekIndex,       \* CustomCalendar: the week row being rendered (0-based)
    weekEvents,      \* CustomCalendar: getWeekEvents(...) of that row
    visited,         \* CustomCalendar: events of weekEvents already visited
    eventRows,       \* CustomCalendar: the occupied (row, column) cells
    eventPlacements, \* CustomCalendar: the placements of that row
    lpc,             \* "week", "place" or "rendered"
    timeMin,         \* GET: the timeMin parameter
    timeMax,         \* GET: the timeMax parameter
    filteredEvents,  \* GET: filterEventsByTimeRange(events, timeMin, timeMax)
    rpc,             \* GET: "fetched", "parsed", "filtered" or "responded"
    summary,         \* GET: the summary of the response
    timeZone,        \* GET: the timeZone of the response
    calls,           \* invocations of parseICalEvents in progress, each with its locals
    dayEvents,       \* week view: the events listed under each of the 7 days
    wpc,             \* week view: "stale" or "rendered"
    page,            \* the page that fetches: "home" or "embed"
    shownEvents,     \* page state: events, by the ids of the events
    calendarName,    \* page state: calendarName
    error,           \* page state: error (NoError for null)
    loading,         \* page state: loading
    fetches,         \* the fetchCalendarData calls that reached the network, oldest first
    latest,          \* what the last run of the fetch effect did
    drawn,           \* month view: the placements drawn over the week row
    overflow,        \* month view: the "+k more" line of the week row
    config,          \* home page: the configuration being edited
    embedQuery,      \* home page: the query string of the embed code
    embedConfig,     \* embed page: the configuration it renders with
    qpc              \* "edited", "generated" or "loaded"

pvars == <<icalData, lines, i, currentEvent, events, pc>>
fvars == <<folded, foldedEvents>>
uvars == <<plain, escaped, unescaped, upc>>
lvars == <<tzOffset, now, currentDate, weekIndex, weekEvents, visited, eventRows,
           eventPlacements, lpc>>
rvars == <<timeMin, timeMax, filteredEvents, rpc, summary, timeZone>>
cvars == <<calls>>
wvars == <<dayEvents, wpc>>
hvars == <<page, shownEvents, calendarName, error, loading, fetches, latest>>
ovars == <<drawn, overflow>>
qvars == <<config, embedQuery, embedConfig, qpc>>
xvars == <<wvars, hvars, ovars, qvars>>
vars  == <<pvars, fvars, uvars, lvars, rvars, cvars, xvars>>

----------------------------------------------------------------------------
(* Characters that have no one-character TLA+ spelling of their own.       *)
LF  == "\n"
CR  == "\r"
TAB == "\t"
BS  == "\\"
SP  == " "

----------------------------------------------------------------------------
(* JavaScript string primitives.                                           *)

\* s.substring(a) / s.slice(a): the characters from 0-based index a on.
SubstringFrom(s, a) == SubSeq(s, a + 1, Len(s))

\* s.substring(a, b) / s.slice(a, b) for 0 <= a <= b: indices a .. b-1,
\* clamped to the length of s.
Slice(s, a, b) == SubSeq(s, a + 1, IF b < Len(s) THEN b ELSE Len(s))

\* s.startsWith(p)
StartsWith(s, p) == Len(s) >= Len(p) /\ SubSeq(s, 1, Len(p)) = p

\* s.endsWith(p)
EndsWith(s, p) == Len(s) >= Len(p) /\ SubSeq(s, Len(s) - Len(p) + 1, Len(s)) = p

\* s.indexOf(c) for a single character c: 0-based, -1 when absent.
IndexOf(s, c) ==
    IF \E k \in 1..Len(s) : s[k] = c
    THEN (CHOOSE k \in 1..Len(s) : s[k] = c /\ \A j \in 1..(k - 1) : s[j] # c) - 1
    ELSE -1

\* s.includes(sub)
Includes(s, sub) ==
    \E k \in 0..(Len(s) - Len(sub)) : SubSeq(s, k + 1, k + Len(sub)) = sub

\* s.split(sep)[0] for a single character sep.
SplitFirst(s, sep) == IF IndexOf(s, sep) < 0 THEN s ELSE Slice(s, 0, IndexOf(s, sep))

\* s.replace(/pat/g, rep) for a literal pattern: every leftmost,
\* non-overlapping occurrence, scanning left to right.
RECURSIVE ReplaceAll(_, _, _)
ReplaceAll(s, pat, rep) ==
    IF Len(s) < Len(pat) THEN s
    ELSE IF SubSeq(s, 1, Len(pat)) = pat
         THEN rep \o ReplaceAll(SubstringFrom(s, Len(pat)), pat, rep)
         ELSE <<Head(s)>> \o ReplaceAll(Tail(s), pat, rep)

\* s.replace(c, '') with a string pattern: the first occurrence only.
RemoveFirst(s, c) ==
    IF IndexOf(s, c) < 0 THEN s
    ELSE Slice(s, 0, IndexOf(s, c)) \o SubstringFrom(s, IndexOf(s, c) + 1)

\* text.split(/\r?\n/): a line ends before a line feed and before the
\* carriage return that immediately precedes it; `from` is the 1-based index
\* where the current line starts.
RECURSIVE SplitFrom(_, _)
SplitFrom(text, from) ==
    IF \A k \in from..Len(text) : text[k] # LF THEN <<SubSeq(text, from, Len(text))>>
    ELSE LET k    == CHOOSE k \in from..Len(text) :
                         text[k] = LF /\ \A j \in from..(k - 1) : text[j] # LF
             stop == IF k - 1 >= from /\ text[k - 1] = CR THEN k - 2 ELSE k - 1
         IN  <<SubSeq(text, from, stop)>> \o SplitFrom(text, k + 1)

SplitLines(text) == SplitFrom(text, 1)

----------------------------------------------------------------------------
(* Literals of the parser.                                                 *)
BEGIN_VEVENT   == <<"B", "E", "G", "I", "N", ":", "V", "E", "V", "E", "N", "T">>
END_VEVENT     == <<"E", "N", "D", ":", "V", "E", "V", "E", "N", "T">>
K_UID          == <<"U", "I", "D">>
BEGIN_VCALENDAR == <<"B", "E", "G", "I", "N", ":", "V", "C", "A", "L", "E", "N", "D", "A", "R">>
END_VCALENDAR   == <<"E", "N", "D", ":", "V", "C", "A", "L", "E", "N", "D", "A", "R">>
K_SUMMARY      == <<"S", "U", "M", "M", "A", "R", "Y">>
K_DESCRIPTION  == <<"D", "E", "S", "C", "R", "I", "P", "T", "I", "O", "N">>
K_LOCATION     == <<"L", "O", "C", "A", "T", "I", "O", "N">>
K_DTSTART      == <<"D", "T", "S", "T", "A", "R", "T">>
K_DTEND        == <<"D", "T", "E", "N", "D">>
K_URL          == <<"U", "R", "L">>
VALUE_DATE     == <<"V", "A", "L", "U", "E", "=", "D", "A", "T", "E">>
UntitledEvent  == <<"U", "n", "t", "i", "t", "l", "e", "d", " ", "E", "v", "e", "n", "t">>

\* An optional property that was never assigned (undefined).
Undefined == [kind |-> "undefined", value |-> <<>>]
\* { date: v } and { dateTime: v }
DateOf(v)     == [kind |-> "date", value |-> v]
DateTimeOf(v) == [kind |-> "dateTime", value |-> v]
TextOf(v)     == [kind |-> "text", value |-> v]

\* currentEvent = null
NoEvent == [open |-> FALSE]

----------------------------------------------------------------------------
(* unescapeICalText: four global replacements applied one after another.   *)
unescapeICalText(text) ==
    ReplaceAll(ReplaceAll(ReplaceAll(ReplaceAll(text,
        <<BS, "n">>, <<LF>>), <<BS, ",">>, <<",">>), <<BS, ";">>, <<";">>), <<BS, BS>>, <<BS>>)

\* formatICalDate: YYYYMMDD -> YYYY-MM-DD, anything shorter is returned as is.
formatICalDate(dateStr) ==
    IF Len(dateStr) >= 8
    THEN Slice(dateStr, 0, 4) \o <<"-">> \o Slice(dateStr, 4, 6) \o <<"-">> \o Slice(dateStr, 6, 8)
    ELSE dateStr

\* formatICalDateTime: YYYYMMDDTHHMMSS[Z] -> YYYY-MM-DDTHH:MM:SS[Z].
formatICalDateTime(dateTimeStr) ==
    LET cleaned == RemoveFirst(dateTimeStr, "Z")
    IN  IF Len(cleaned) >= 15
        THEN Slice(cleaned, 0, 4) \o <<"-">> \o Slice(cleaned, 4, 6) \o <<"-">> \o Slice(cleaned, 6, 8)
             \o <<"T">>
             \o Slice(cleaned, 9, 11) \o <<":">> \o Slice(cleaned, 11, 13) \o <<":">> \o Slice(cleaned, 13, 15)
             \o (IF EndsWith(dateTimeStr, <<"Z">>) THEN <<"Z">> ELSE <<>>)
        ELSE dateTimeStr

----------------------------------------------------------------------------
(* parseICalEvents, one logical line at a time.                            *)

\* lines[i + 1].startsWith(' ') || lines[i + 1].startsWith('\t'), for the
\* 1-based line number n.
IsContinuation(ls, n) ==
    n <= Len(ls) /\ (StartsWith(ls[n], <<SP>>) \/ StartsWith(ls[n], <<TAB>>))

\* The 1-based number of the last physical line of the logical line that
\* starts at physical line n (the while loop of the line continuation).
RECURSIVE ContinuationEnd(_, _)
ContinuationEnd(ls, n) ==
    IF IsContinuation(ls, n + 1) THEN ContinuationEnd(ls, n + 1) ELSE n

\* JoinContinuation that appends the continuation lines whole.
RECURSIVE JoinKeepWhitespace(_, _, _)
JoinKeepWhitespace(ls, n, m) ==
    IF m <= n THEN ls[n] ELSE JoinKeepWhitespace(ls, n, m - 1) \o ls[m]

\* line += lines[i].substring(1) for the physical lines n+1 .. m.
RECURSIVE JoinContinuation(_, _, _)
JoinContinuation(ls, n, m) ==
    IF m <= n THEN ls[n] ELSE JoinContinuation(ls, n, m - 1) \o SubstringFrom(ls[m], 1)

\* The logical line that starts at physical line n.
LogicalLine(ls, n) == JoinContinuation(ls, n, ContinuationEnd(ls, n))

\* The logical lines of a list of physical lines, from physical line n on.
RECURSIVE LogicalLinesFrom(_, _)
LogicalLinesFrom(ls, n) ==
    IF n > Len(ls) THEN <<>>
    ELSE <<LogicalLine(ls, n)>> \o LogicalLinesFrom(ls, ContinuationEnd(ls, n) + 1)

LogicalLines(ls) == LogicalLinesFrom(ls, 1)

IsBegin(line) == StartsWith(line, BEGIN_VEVENT)
IsEnd(line)   == StartsWith(line, END_VEVENT)

\* currentEvent = { id: '', title: 'Untitled Event', allDay: false }
NewEvent ==
    [open |-> TRUE, id |-> <<>>, title |-> UntitledEvent, allDay |-> FALSE,
     description |-> Undefined, location |-> Undefined,
     start |-> Undefined, end |-> Undefined, htmlLink |-> Undefined]

\* OnBegin that keeps the fields of a block still open.
OnBeginKeepOpen(cur) == IF cur.open THEN cur ELSE NewEvent

OnBegin(cur) == NewEvent

\* if (currentEvent.id && currentEvent.start)
Committable(cur) == cur.id # <<>> /\ cur.start.kind # "undefined"

\* OnEnd without the test of id and start.
CommitWithoutCheck(cur, evs) == Append(evs, cur)

\* END:VEVENT with an open block: the new output list.
OnEnd(cur, evs) == IF Committable(cur) THEN Append(evs, cur) ELSE evs

\* case 'DTSTART'
OnDtStart(cur, keyPart, value) ==
    IF Includes(keyPart, VALUE_DATE)
    THEN [cur EXCEPT !.start = DateOf(formatICalDate(value)), !.allDay = TRUE]
    ELSE [cur EXCEPT !.start = DateTimeOf(formatICalDateTime(value))]

\* case 'DTEND'
OnDtEnd(cur, keyPart, value) ==
    IF Includes(keyPart, VALUE_DATE)
    THEN [cur EXCEPT !.end = DateOf(formatICalDate(value))]
    ELSE [cur EXCEPT !.end = DateTimeOf(formatICalDateTime(value))]

\* A line of an open block: split at the first colon, switch on the key.
OnField(cur, line) ==
    LET colonIndex == IndexOf(line, ":")
        keyPart    == Slice(line, 0, colonIndex)
        value      == SubstringFrom(line, colonIndex + 1)
        key        == SplitFirst(keyPart, ";")
    IN  IF colonIndex <= 0 THEN cur
        ELSE CASE key = K_UID         -> [cur EXCEPT !.id = value]
               [] key = K_SUMMARY     -> [cur EXCEPT !.title = unescapeICalText(value)]
               [] key = K_DESCRIPTION -> [cur EXCEPT !.description = TextOf(unescapeICalText(value))]
               [] key = K_LOCATION    -> [cur EXCEPT !.location = TextOf(unescapeICalText(value))]
               [] key = K_DTSTART     -> OnDtStart(cur, keyPart, value)
               [] key = K_DTEND       -> OnDtEnd(cur, keyPart, value)
               [] key = K_URL         -> [cur EXCEPT !.htmlLink = TextOf(value)]
               [] OTHER               -> cur

\* ParseLine that takes a field line outside a block as the first line of
\* a new block.
ParseLineOpenOnField(st, line) ==
    IF IsBegin(line) THEN [cur |-> OnBegin(st.cur), evs |-> st.evs]
    ELSE IF IsEnd(line) /\ st.cur.open THEN [cur |-> NoEvent, evs |-> OnEnd(st.cur, st.evs)]
    ELSE IF IsEnd(line) THEN st
    ELSE [cur |-> OnField(IF st.cur.open THEN st.cur ELSE NewEvent, line), evs |-> st.evs]

\* ParseLine with a BEGIN:VEVENT that first pushes the block still open.
ParseLineFlushOnBegin(st, line) ==
    IF IsBegin(line)
    THEN [cur |-> NewEvent, evs |-> IF st.cur.open THEN OnEnd(st.cur, st.evs) ELSE st.evs]
    ELSE IF IsEnd(line) /\ st.cur.open THEN [cur |-> NoEvent, evs |-> OnEnd(st.cur, st.evs)]
    ELSE IF st.cur.open THEN [cur |-> OnField(st.cur, line), evs |-> st.evs]
    ELSE st

\* The body of the for loop after the continuation lines were joined.
ParseLine(st, line) ==
    IF IsBegin(line) THEN [cur |-> OnBegin(st.cur), evs |-> st.evs]
    ELSE IF IsEnd(line) /\ st.cur.open THEN [cur |-> NoEvent, evs |-> OnEnd(st.cur, st.evs)]
    ELSE IF st.cur.open THEN [cur |-> OnField(st.cur, line), evs |-> st.evs]
    ELSE st

RECURSIVE ParseLogical(_, _, _)
ParseLogical(st, ll, n) ==
    IF n > Len(ll) THEN st ELSE ParseLogical(ParseLine(st, ll[n]), ll, n + 1)

\* The events a list of logical lines yields.
ParseLines(ll) == ParseLogical([cur |-> NoEvent, evs |-> <<>>], ll, 1).evs

\* parseICalEvents as a function of the feed text.
parseICalEvents(text) == ParseLines(LogicalLines(SplitLines(text)))

----------------------------------------------------------------------------
(* Dates.  A Date is [nan, day, ms]: nan for an Invalid Date, day the      *)
(* local civil day counted from 1970-01-01, ms the milliseconds into it.   *)
MS_PER_DAY    == 24 * 60 * 60 * 1000
MS_PER_MINUTE == 60 * 1000

Digits == {"0", "1", "2", "3", "4", "5", "6", "7", "8", "9"}

DigitValue(c) ==
    CASE c = "0" -> 0 [] c = "1" -> 1 [] c = "2" -> 2 [] c = "3" -> 3 [] c = "4" -> 4
      [] c = "5" -> 5 [] c = "6" -> 6 [] c = "7" -> 7 [] c = "8" -> 8 [] c = "9" -> 9

AllDigits(ds) == \A n \in 1..Len(ds) : ds[n] \in Digits

RECURSIVE ToNumber(_)
ToNumber(ds) ==
    IF ds = <<>> THEN 0
    ELSE 10 * ToNumber(SubSeq(ds, 1, Len(ds) - 1)) + DigitValue(ds[Len(ds)])

IsLeapYear(y) == (y % 4 = 0 /\ y % 100 # 0) \/ y % 400 = 0

\* Days of month m (1..12) of year y.
DaysOfMonth(y, m) ==
    IF m = 2 THEN (IF IsLeapYear(y) THEN 29 ELSE 28)
    ELSE IF m \in {4, 6, 9, 11} THEN 30 ELSE 31

\* The day number of the civil date y-m-d (m in 1..12), proleptic Gregorian.
DaysFromCivil(y, m, d) ==
    LET yy  == IF m <= 2 THEN y - 1 ELSE y
        era == yy \div 400
        yoe == yy - era * 400
        mp  == IF m > 2 THEN m - 3 ELSE m + 9
        doy == (153 * mp + 2) \div 5 + d - 1
        doe == yoe * 365 + yoe \div 4 - yoe \div 100 + doy
    IN  era * 146097 + doe - 719468

\* The civil date of a day number: [year, month (1..12), date].
CivilFromDays(n) ==
    LET z   == n + 719468
        era == z \div 146097
        doe == z - era * 146097
        yoe == (doe - doe \div 1460 + doe \div 36524 - doe \div 146096) \div 365
        doy == doe - (365 * yoe + yoe \div 4 - yoe \div 100)
        mp  == (5 * doy + 2) \div 153
        d   == doy - (153 * mp + 2) \div 5 + 1
        m   == IF mp < 10 THEN mp + 3 ELSE mp - 9
        y   == yoe + era * 400 + (IF m <= 2 THEN 1 ELSE 0)
    IN  [year |-> y, month |-> m, date |-> d]

InvalidDate == [nan |-> TRUE, day |-> 0, ms |-> 0]
DateAt(day, ms) == [nan |-> FALSE, day |-> day, ms |-> ms]

\* new Date(year, monthIndex, day): local midnight; monthIndex (0-based) and
\* day may lie outside their ranges and carry over.
NewDateYMD(year, monthIndex, day) ==
    LET y == year + (monthIndex \div 12)
        m == (monthIndex % 12) + 1
    IN  DateAt(DaysFromCivil(y, m, 1) + day - 1, 0)

\* date.getDate(), date.getMonth() (0-based), date.getFullYear(), date.getDay()
GetDate(d)     == CivilFromDays(d.day).date
GetMonth(d)    == CivilFromDays(d.day).month - 1
GetFullYear(d) == CivilFromDays(d.day).year
GetDay(d)      == (d.day + 4) % 7

\* a <= b, a >= b, a < b on Dates (through valueOf); false when either is
\* an Invalid Date.
DateLE(a, b) == ~a.nan /\ ~b.nan /\ (a.day < b.day \/ (a.day = b.day /\ a.ms <= b.ms))
DateGE(a, b) == DateLE(b, a)
DateLT(a, b) == ~a.nan /\ ~b.nan /\ (a.day < b.day \/ (a.day = b.day /\ a.ms < b.ms))

\* date.setHours(0, 0, 0, 0) and date.setHours(23, 59, 59, 999)
StartOfDay(d) == IF d.nan THEN d ELSE DateAt(d.day, 0)
EndOfDay(d)   == IF d.nan THEN d ELSE DateAt(d.day, MS_PER_DAY - 1)

\* date.setDate(date.getDate() + n)
AddDays(d, n) == IF d.nan THEN d ELSE DateAt(d.day + n, d.ms)

\* new Date(text) for the ISO forms YYYY-MM-DDTHH:MM:SS (local time) and
\* YYYY-MM-DDTHH:MM:SSZ (UTC, shifted by the zone offset in minutes); any
\* other text is an Invalid Date.
ParseDateTime(text, offset) ==
    LET shape  == /\ Len(text) \in {19, 20}
                  /\ text[5] = "-" /\ text[8] = "-" /\ text[11] = "T"
                  /\ text[14] = ":" /\ text[17] = ":"
                  /\ (Len(text) = 20 => text[20] = "Z")
                  /\ AllDigits(SubSeq(text, 1, 4)) /\ AllDigits(SubSeq(text, 6, 7))
                  /\ AllDigits(SubSeq(text, 9, 10)) /\ AllDigits(SubSeq(text, 12, 13))
                  /\ AllDigits(SubSeq(text, 15, 16)) /\ AllDigits(SubSeq(text, 18, 19))
        y      == ToNumber(SubSeq(text, 1, 4))
        m      == ToNumber(SubSeq(text, 6, 7))
        d      == ToNumber(SubSeq(text, 9, 10))
        hh     == ToNumber(SubSeq(text, 12, 13))
        mm     == ToNumber(SubSeq(text, 15, 16))
        ss     == ToNumber(SubSeq(text, 18, 19))
        fields == /\ m \in 1..12 /\ d \in 1..DaysOfMonth(y, m)
                  /\ hh \in 0..23 /\ mm \in 0..59 /\ ss \in 0..59
        ms     == (hh * 3600 + mm * 60 + ss) * 1000
        total  == ms + (IF Len(text) = 20 THEN offset * MS_PER_MINUTE ELSE 0)
        carry  == IF total < 0 THEN -1 ELSE IF total >= MS_PER_DAY THEN 1 ELSE 0
    IN  IF ~shape THEN InvalidDate
        ELSE IF ~fields THEN InvalidDate
        ELSE DateAt(DaysFromCivil(y, m, d) + carry, total - carry * MS_PER_DAY)

T_MIDNIGHT == <<"T", "0", "0", ":", "0", "0", ":", "0", "0">>

----------------------------------------------------------------------------
(* CustomCalendar: the date helpers of the month view.                     *)

\* A property holds a usable string (it is set and not empty).
Truthy(prop, kind) == prop.kind = kind /\ prop.value # <<>>

\* getEventStartDate
getEventStartDate(event) ==
    IF Truthy(event.start, "dateTime") THEN ParseDateTime(event.start.value, tzOffset)
    ELSE IF Truthy(event.start, "date")
         THEN ParseDateTime(event.start.value \o T_MIDNIGHT, tzOffset)
    ELSE now

\* getEventEndDate
getEventEndDate(event) ==
    IF Truthy(event.end, "dateTime") THEN ParseDateTime(event.end.value, tzOffset)
    ELSE IF Truthy(event.end, "date")
         THEN AddDays(ParseDateTime(event.end.value \o T_MIDNIGHT, tzOffset), -1)
    ELSE getEventStartDate(event)

\* isSameDay
isSameDay(date1, date2) == ~date1.nan /\ ~date2.nan /\ date1.day = date2.day

\* An overlap test on the instants themselves, without day granularity.
SpansInstant(event, targetDate) ==
    /\ DateLE(targetDate, getEventEndDate(event))
    /\ DateGE(targetDate, getEventStartDate(event))

\* eventSpansDay
eventSpansDay(event, targetDate) ==
    LET targetStart   == StartOfDay(targetDate)
        targetEnd     == EndOfDay(targetDate)
        eventStartDay == StartOfDay(getEventStartDate(event))
        eventEndDay   == EndOfDay(getEventEndDate(event))
    IN  DateLE(targetStart, eventEndDay) /\ DateGE(targetEnd, eventStartDay)

\* eventStartsOnDay
eventStartsOnDay(event, targetDate) == isSameDay(getEventStartDate(event), targetDate)

\* getFirstDayOfMonth counted from Monday.
FirstDayFromMonday(year, month) == (GetDay(NewDateYMD(year, month, 1)) + 6) % 7

\* getDaysInMonth, getFirstDayOfMonth (month 0-based)
getDaysInMonth(year, month)     == GetDate(NewDateYMD(year, month + 1, 0))
getFirstDayOfMonth(year, month) == GetDay(NewDateYMD(year, month, 1))

currentMonth == GetMonth(currentDate)
currentYear  == GetFullYear(currentDate)

\* A slot of a week row: { day, date }, both null for padding.
EmptyCell == [day |-> 0, dated |-> FALSE, date |-> InvalidDate]
DayCell(year, month, day) == [day |-> day, dated |-> TRUE, date |-> NewDateYMD(year, month, day)]

\* calendarWeeks, the loop over the days of the month, a week at a time: the
\* days are pushed on the current week until it has 7 slots or the month
\* ends, and a week of 7 slots is pushed on the weeks.
RECURSIVE PushDays(_, _, _, _, _)
PushDays(grid, year, month, day, daysInMonth) ==
    IF day > daysInMonth THEN grid
    ELSE LET room   == 7 - Len(grid.currentWeek)
             left   == daysInMonth - day + 1
             count  == IF left < room THEN left ELSE room
             filled == grid.currentWeek
                       \o [j \in 1..count |-> DayCell(year, month, day + j - 1)]
         IN  PushDays(IF Len(filled) = 7
                      THEN [weeks |-> Append(grid.weeks, filled), currentWeek |-> <<>>]
                      ELSE [weeks |-> grid.weeks, currentWeek |-> filled],
                      year, month, day + count, daysInMonth)

\* calendarWeeks, the loop that fills the last week with empty slots.
RECURSIVE FillWeek(_)
FillWeek(currentWeek) ==
    IF Len(currentWeek) > 0 /\ Len(currentWeek) < 7
    THEN FillWeek(Append(currentWeek, EmptyCell))
    ELSE currentWeek

\* calendarWeeks: empty slots before the first day, the days of the month,
\* empty slots to fill the last week.
calendarWeeksOf(year, month) ==
    LET leading == [n \in 1..getFirstDayOfMonth(year, month) |-> EmptyCell]
        grid    == PushDays([weeks |-> <<>>, currentWeek |-> leading],
                            year, month, 1, getDaysInMonth(year, month))
        last    == FillWeek(grid.currentWeek)
    IN  IF Len(last) > 0 THEN Append(grid.weeks, last) ELSE grid.weeks

calendarWeeks == calendarWeeksOf(currentYear, currentMonth)

\* The difference a.getTime() - b.getTime() of two valid Dates as whole days
\* and milliseconds (0 <= ms < MS_PER_DAY).
TimeDiff(a, b) ==
    IF a.ms < b.ms THEN <<a.day - b.day - 1, a.ms - b.ms + MS_PER_DAY>>
    ELSE <<a.day - b.day, a.ms - b.ms>>

\* What the sort comparator of getWeekEvents reads of an event: its start and
\* its duration getEventEndDate(e).getTime() - getEventStartDate(e).getTime(),
\* which is NaN when either Date is invalid.
SortKey(event) ==
    [start    |-> getEventStartDate(event),
     nan      |-> getEventStartDate(event).nan \/ getEventEndDate(event).nan,
     duration |-> TimeDiff(getEventEndDate(event), getEventStartDate(event))]

\* The sign of the sort comparator on two keys: start ascending, then
\* duration descending; a NaN result counts as 0.
CompareKeys(ka, kb) ==
    IF ka.start.nan \/ kb.start.nan THEN 0
    ELSE IF DateLT(ka.start, kb.start) THEN -1
    ELSE IF DateLT(kb.start, ka.start) THEN 1
    ELSE IF ka.nan \/ kb.nan THEN 0
    ELSE IF kb.duration[1] # ka.duration[1]
         THEN (IF kb.duration[1] < ka.duration[1] THEN -1 ELSE 1)
    ELSE IF kb.duration[2] # ka.duration[2]
         THEN (IF kb.duration[2] < ka.duration[2] THEN -1 ELSE 1)
    ELSE 0

\* A comparator that orders by start only.
CompareStartsOnly(a, b) ==
    IF SortKey(a).start.nan \/ SortKey(b).start.nan THEN 0
    ELSE IF DateLT(SortKey(a).start, SortKey(b).start) THEN -1
    ELSE IF DateLT(SortKey(b).start, SortKey(a).start) THEN 1
    ELSE 0

CompareEvents(a, b) == CompareKeys(SortKey(a), SortKey(b))

\* Array.prototype.sort is stable: an element comes after the elements that
\* compare smaller and after the equal ones that precede it in the input.
BeforeTiesReversed(evs, m, j) ==
    IF CompareEvents(evs[m], evs[j]) = 0 THEN m > j
    ELSE CompareEvents(evs[m], evs[j]) < 0

Before(evs, m, j) ==
    IF CompareEvents(evs[m], evs[j]) = 0 THEN m < j
    ELSE CompareEvents(evs[m], evs[j]) < 0

RankOf(evs, j) == 1 + Cardinality({m \in 1..Len(evs) : Before(evs, m, j)})

SortEvents(evs) ==
    [p \in 1..Len(evs) |-> evs[CHOOSE j \in 1..Len(evs) : RankOf(evs, j) = p]]

\* The filter of getWeekEvents.
InWeek(event, weekStartDate, weekEndDate) ==
    /\ DateLE(getEventStartDate(event), weekEndDate)
    /\ DateGE(getEventEndDate(event), weekStartDate)

\* events.filter(...) of getWeekEvents
RECURSIVE FilterInWeek(_, _, _)
FilterInWeek(evs, weekStartDate, weekEndDate) ==
    IF evs = <<>> THEN <<>>
    ELSE (IF InWeek(Head(evs), weekStartDate, weekEndDate) THEN <<Head(evs)>> ELSE <<>>)
         \o FilterInWeek(Tail(evs), weekStartDate, weekEndDate)

\* getWeekEvents
getWeekEvents(evs, weekStartDate, weekEndDate) ==
    SortEvents(FilterInWeek(evs, weekStartDate, weekEndDate))

\* week.find(d => d.date)?.date || new Date()
firstDayOfWeek(week) ==
    LET dated == {c \in 1..7 : week[c].dated}
    IN  IF dated = {} THEN now ELSE week[CHOOSE c \in dated : \A d \in dated : c <= d].date

\* [...week].reverse().find(d => d.date)?.date || new Date()
lastDayOfWeek(week) ==
    LET dated == {c \in 1..7 : week[c].dated}
    IN  IF dated = {} THEN now ELSE week[CHOOSE c \in dated : \A d \in dated : c >= d].date

\* StartColOf without the test of the slot before: a spanned slot counts
\* only when the event starts on it or it is column 0.
StartColIgnoringPadding(event, week) ==
    LET hits == {c \in 0..6 :
                    /\ week[c + 1].dated /\ eventSpansDay(event, week[c + 1].date)
                    /\ (eventStartsOnDay(event, week[c + 1].date) \/ c = 0)}
    IN  IF hits = {} THEN 0 ELSE CHOOSE c \in hits : \A d \in hits : c <= d

\* The column (0-based) where the event starts in the week.
StartColOf(event, week) ==
    LET hits == {c \in 0..6 :
                    /\ week[c + 1].dated /\ eventSpansDay(event, week[c + 1].date)
                    /\ \/ eventStartsOnDay(event, week[c + 1].date)
                       \/ c = 0
                       \/ ~week[c].dated}
    IN  IF hits = {} THEN 0 ELSE CHOOSE c \in hits : \A d \in hits : c <= d

\* The span counted from column c on: dated days the event spans, up to the
\* first dated day it does not span.
\* A span that counts every dated slot from column c to the end of the row.
SpanToRowEnd(event, week, c) == Cardinality({d \in c..6 : week[d + 1].dated})

RECURSIVE SpanFrom(_, _, _)
SpanFrom(event, week, c) ==
    IF c > 6 THEN 0
    ELSE IF week[c + 1].dated /\ eventSpansDay(event, week[c + 1].date)
         THEN 1 + SpanFrom(event, week, c + 1)
    ELSE IF week[c + 1].dated THEN 0
    ELSE SpanFrom(event, week, c + 1)

SpanOf(event, week) == SpanFrom(event, week, StartColOf(event, week))

\* The columns startCol .. startCol + span - 1.
ColumnRange(startCol, span) == startCol..(startCol + span - 1)

\* A row search that always answers row 0.
AlwaysRowZero(occupied, startCol, span) == 0

\* A row search that answers the row after the last occupied one.
RowAfterLast(occupied, startCol, span) ==
    IF occupied = {} THEN 0
    ELSE 1 + (CHOOSE r \in {cell[1] : cell \in occupied} :
                  \A cell \in occupied : cell[1] <= r)

\* The first row without an occupied cell in the column range.
FirstFreeRow(occupied, startCol, span) ==
    LET free(r) == \A col \in ColumnRange(startCol, span) : <<r, col>> \notin occupied
    IN  CHOOSE r \in 0..Cardinality(occupied) :
            free(r) /\ \A q \in 0..(r - 1) : ~free(q)

----------------------------------------------------------------------------
(* Feed texts.  A feed is a sequence of at most MaxBlocks blocks of lines  *)
(* joined by one end-of-line convention; block number j carries the UID    *)
(* letter number j.                                                        *)
MaxBlocks == 2

UidLetters == <<"a", "b", "c", "d">>

TOK_DATE     == <<"2", "0", "2", "5", "0", "6", "1", "0">>
TOK_DATETIME == <<"2", "0", "2", "5", "0", "6", "1", "1", "T", "0", "9", "3", "0", "0", "0", "Z">>

UidLine(v)       == K_UID \o <<":">> \o v
DtStartDate(v)   == K_DTSTART \o <<";">> \o VALUE_DATE \o <<":">> \o v
DtStartTime(v)   == K_DTSTART \o <<":">> \o v

\* Which lines a block has: its frame (both delimiters, no END:VEVENT, no
\* BEGIN:VEVENT) and its fields (at most one of UID and DTSTART is defective).
Frames   == {"full", "unterminated", "stray"}
Contents == {c \in [uid : {"none", "own", "empty"}, dt : {"none", "date", "dateTime", "both"}] :
                c.uid = "own" \/ c.dt = "date"}
BlockKinds == [frame : Frames, content : Contents]

BlockLines(kind, j) ==
    (IF kind.frame # "stray" THEN <<BEGIN_VEVENT>> ELSE <<>>)
    \o (CASE kind.content.uid = "own"   -> <<UidLine(<<UidLetters[j]>>)>>
          [] kind.content.uid = "empty" -> <<UidLine(<<>>)>>
          [] OTHER                      -> <<>>)
    \o (CASE kind.content.dt = "date"     -> <<DtStartDate(TOK_DATE)>>
          [] kind.content.dt = "dateTime" -> <<DtStartTime(TOK_DATETIME)>>
          [] kind.content.dt = "both"     -> <<DtStartDate(TOK_DATE), DtStartTime(TOK_DATETIME)>>
          [] OTHER                        -> <<>>)
    \o (IF kind.frame # "unterminated" THEN <<END_VEVENT>> ELSE <<>>)

RECURSIVE FeedLines(_, _)
FeedLines(kinds, j) ==
    IF j > Len(kinds) THEN <<>> ELSE BlockLines(kinds[j], j) \o FeedLines(kinds, j + 1)

\* The lines joined by the end-of-line sequence eol.
RECURSIVE JoinLines(_, _)
JoinLines(ls, eol) ==
    IF ls = <<>> THEN <<>>
    ELSE IF Len(ls) = 1 THEN ls[1]
    ELSE ls[1] \o eol \o JoinLines(Tail(ls), eol)

EndOfLines == {<<LF>>, <<CR, LF>>}

BlockSeqs == UNION {[1..n -> BlockKinds] : n \in 0..MaxBlocks}

Feeds == {JoinLines(FeedLines(kinds, 1), eol) : kinds \in BlockSeqs, eol \in EndOfLines}

----------------------------------------------------------------------------
(* parseICalEvents as a state machine: one action per branch of the loop   *)
(* body, each consuming one logical line.                                  *)

\* The logical line the loop is about to process and the index after it.
Line     == LogicalLine(lines, i + 1)
NextI    == ContinuationEnd(lines, i + 1)
InLoop   == pc = "loop" /\ i < Len(lines)
Consume  ==
    LET st == ParseLine([cur |-> currentEvent, evs |-> events], Line)
    IN  /\ currentEvent' = st.cur
        /\ events' = st.evs
        /\ i' = NextI
        /\ UNCHANGED <<icalData, lines, pc, fvars, uvars, lvars, rvars, cvars, xvars>>

ParseIdle ==
    /\ icalData = <<>> /\ lines = <<>> /\ i = 0
    /\ currentEvent = NoEvent /\ events = <<>> /\ pc = "idle"
FoldIdle == folded = <<>> /\ foldedEvents = <<>>
RouteIdle ==
    /\ timeMin = <<>> /\ timeMax = <<>> /\ filteredEvents = <<>> /\ rpc = "idle"
    /\ summary = <<>> /\ timeZone = <<>>
CallsIdle == calls = <<>>
WeekIdle == dayEvents = <<>> /\ wpc = "idle"
PageIdle ==
    /\ page = "none" /\ shownEvents = <<>> /\ calendarName = "" /\ error = "null"
    /\ loading = FALSE /\ fetches = <<>> /\ latest = "idle"
NoOverflow == [shown |-> FALSE, count |-> 0]
OverlayIdle == drawn = <<>> /\ overflow = NoOverflow
ConfigIdle == config = <<>> /\ embedQuery = <<>> /\ embedConfig = <<>> /\ qpc = "idle"
ExtraIdle == WeekIdle /\ PageIdle /\ OverlayIdle /\ ConfigIdle
TextIdle == plain = <<>> /\ escaped = <<>> /\ unescaped = <<>> /\ upc = "idle"
LayoutIdle ==
    /\ tzOffset = 0 /\ now = DateAt(0, 0) /\ currentDate = DateAt(0, 0)
    /\ weekIndex = 0 /\ weekEvents = <<>> /\ visited = 0
    /\ eventRows = {} /\ eventPlacements = <<>> /\ lpc = "idle"

ParseInit ==
    /\ icalData \in Feeds
    /\ lines = SplitLines(icalData)
    /\ i = 0
    /\ currentEvent = NoEvent
    /\ events = <<>>
    /\ pc = "loop"

\* line.startsWith('BEGIN:VEVENT')
ParseBegin == InLoop /\ IsBegin(Line) /\ Consume

\* line.startsWith('END:VEVENT') && currentEvent, the event is pushed
ParseEndCommit ==
    InLoop /\ ~IsBegin(Line) /\ IsEnd(Line) /\ currentEvent.open
           /\ Committable(currentEvent) /\ Consume

\* line.startsWith('END:VEVENT') && currentEvent, the event is dropped
ParseEndDiscard ==
    InLoop /\ ~IsBegin(Line) /\ IsEnd(Line) /\ currentEvent.open
           /\ ~Committable(currentEvent) /\ Consume

\* else if (currentEvent): a field line of the open block
ParseField ==
    InLoop /\ ~IsBegin(Line) /\ ~IsEnd(Line) /\ currentEvent.open /\ Consume

\* no branch applies: a line outside any block
ParseSkip ==
    InLoop /\ ~IsBegin(Line) /\ ~currentEvent.open /\ Consume

\* the loop ends: return events
ParseReturn ==
    /\ pc = "loop" /\ i >= Len(lines)
    /\ pc' = "done"
    /\ UNCHANGED <<icalData, lines, i, currentEvent, events, fvars, uvars, lvars, rvars, cvars, xvars>>

ParseNext ==
    \/ ParseBegin
    \/ ParseEndCommit
    \/ ParseEndDiscard
    \/ ParseField
    \/ ParseSkip
    \/ ParseReturn

Init == ParseInit /\ FoldIdle /\ TextIdle /\ LayoutIdle /\ RouteIdle /\ CallsIdle /\ ExtraIdle
Next == ParseNext
Spec == Init /\ [][Next]_vars

----------------------------------------------------------------------------
(* The month view.  The events are those parseICalEvents returns for a     *)
(* feed of at most MaxEvents well delimited blocks; the month shown starts *)
(* at the month of `now` and moves with the navigation buttons.            *)
MaxEvents      == 2
MaxMonthsAhead == 1

DigitChars == <<"0", "1", "2", "3", "4", "5", "6", "7", "8", "9">>
TwoDigits(n) == <<DigitChars[(n \div 10) + 1], DigitChars[(n % 10) + 1]>>

\* The tokens 2025MMDD and 2025MMDDTHHMM00[Z].
DateToken(mm, dd) == <<"2", "0", "2", "5">> \o TwoDigits(mm) \o TwoDigits(dd)
TimeToken(mm, dd, hh, mi, utc) ==
    DateToken(mm, dd) \o <<"T">> \o TwoDigits(hh) \o TwoDigits(mi) \o <<"0", "0">>
    \o (IF utc THEN <<"Z">> ELSE <<>>)

DtEndDate(v) == K_DTEND \o <<";">> \o VALUE_DATE \o <<":">> \o v
DtEndTime(v) == K_DTEND \o <<":">> \o v

\* The DTSTART / DTEND lines of the events of the month view, by ascending
\* start; the first two start at the same instant.
LayoutFields ==
    << <<DtStartDate(DateToken(6, 10)), DtEndDate(DateToken(6, 13))>>,
       <<DtStartDate(DateToken(6, 10))>>,
       <<DtStartTime(TimeToken(6, 10, 10, 0, FALSE)), DtEndDate(DateToken(6, 12))>>,
       <<DtStartTime(TimeToken(6, 10, 23, 30, TRUE))>>,
       <<DtStartDate(DateToken(6, 12)), DtEndDate(DateToken(6, 12))>>,
       <<DtStartDate(DateToken(6, 13)), DtEndDate(DateToken(6, 17))>>,
       <<DtStartTime(TimeToken(6, 14, 10, 0, FALSE)), DtEndTime(TimeToken(6, 14, 11, 0, FALSE))>>,
       <<DtStartDate(DateToken(6, 28)), DtEndDate(DateToken(7, 3))>> >>

StartRank == <<1, 1, 2, 3, 4, 5, 6, 7>>

\* The page shows the events as the route returns them, ordered by start
\* (filterEventsByTimeRange); every start above lies in the window of a page
\* that shows past events.
Ordered(choice) ==
    \A k \in 1..(Len(choice) - 1) : StartRank[choice[k]] <= StartRank[choice[k + 1]]

Choices ==
    {choice \in UNION {[1..n -> 1..Len(LayoutFields)] : n \in 0..MaxEvents} : Ordered(choice)}

RECURSIVE LayoutLines(_, _)
LayoutLines(choice, j) ==
    IF j > Len(choice) THEN <<>>
    ELSE <<BEGIN_VEVENT, UidLine(<<UidLetters[j]>>)>> \o LayoutFields[choice[j]]
         \o <<END_VEVENT>> \o LayoutLines(choice, j + 1)

LayoutFeeds == {JoinLines(LayoutLines(choice, 1), <<LF>>) : choice \in Choices}

TimeZones == {-300, 540}

\* new Date() throughout: Tuesday 2025-06-10, 14:30 local time.
NowDate == DateAt(DaysFromCivil(2025, 6, 10), 52200000)

\* Months between the month of `now` and the month shown.
MonthsAhead == (currentYear - GetFullYear(now)) * 12 + currentMonth - GetMonth(now)

LayoutInit ==
    /\ icalData \in LayoutFeeds
    /\ lines = SplitLines(icalData) /\ i = Len(lines)
    /\ currentEvent = NoEvent /\ pc = "done"
    /\ events = parseICalEvents(icalData)
    /\ tzOffset \in TimeZones
    /\ now = NowDate
    /\ currentDate = now
    /\ weekIndex = 0 /\ weekEvents = <<>> /\ visited = 0
    /\ eventRows = {} /\ eventPlacements = <<>> /\ lpc = "week"

\* The week row being rendered and the event the forEach is at.
Week  == calendarWeeks[weekIndex + 1]
Event == weekEvents[visited + 1]

Rerender ==
    /\ weekIndex' = 0 /\ weekEvents' = <<>> /\ visited' = 0
    /\ eventRows' = {} /\ eventPlacements' = <<>> /\ lpc' = "week"
    /\ UNCHANGED <<tzOffset, now, pvars, fvars, uvars, rvars, cvars, xvars>>

\* goToPreviousMonth
GoToPreviousMonth ==
    /\ lpc = "rendered" /\ MonthsAhead > 0
    /\ currentDate' = NewDateYMD(currentYear, currentMonth - 1, 1)
    /\ Rerender

\* goToNextMonth
GoToNextMonth ==
    /\ lpc = "rendered" /\ MonthsAhead < MaxMonthsAhead
    /\ currentDate' = NewDateYMD(currentYear, currentMonth + 1, 1)
    /\ Rerender

\* goToToday
GoToToday ==
    /\ lpc = "rendered" /\ currentDate # now
    /\ currentDate' = now
    /\ Rerender

\* calendarWeeks.map, the start of the callback for one week: the events of
\* the week, nothing placed yet.
BeginWeek ==
    /\ lpc = "week"
    /\ weekEvents' = getWeekEvents(events, firstDayOfWeek(Week), lastDayOfWeek(Week))
    /\ visited' = 0 /\ eventRows' = {} /\ eventPlacements' = <<>>
    /\ lpc' = "place"
    /\ UNCHANGED <<tzOffset, now, currentDate, weekIndex, pvars, fvars, uvars, rvars, cvars, xvars>>

\* weekEvents.forEach, an event with a span: it takes the first free row.
PlaceEvent ==
    /\ lpc = "place" /\ visited < Len(weekEvents)
    /\ SpanOf(Event, Week) # 0
    /\ LET startCol == StartColOf(Event, Week)
           span     == SpanOf(Event, Week)
           row      == FirstFreeRow(eventRows, startCol, span)
       IN  /\ eventRows' = eventRows \cup {<<row, col>> : col \in ColumnRange(startCol, span)}
           /\ eventPlacements' = Append(eventPlacements,
                  [event |-> Event, startCol |-> startCol, span |-> span, row |-> row])
    /\ visited' = visited + 1
    /\ UNCHANGED <<tzOffset, now, currentDate, weekIndex, weekEvents, lpc, pvars, fvars, uvars, rvars, cvars, xvars>>

\* weekEvents.forEach, if (span === 0) return
SkipEvent ==
    /\ lpc = "place" /\ visited < Len(weekEvents)
    /\ SpanOf(Event, Week) = 0
    /\ visited' = visited + 1
    /\ UNCHANGED <<tzOffset, now, currentDate, weekIndex, weekEvents, eventRows,
                   eventPlacements, lpc, pvars, fvars, uvars, rvars, cvars, xvars>>

\* The row is drawn; the map goes on to the next week or ends.
EndWeek ==
    /\ lpc = "place" /\ visited = Len(weekEvents)
    /\ IF weekIndex + 1 < Len(calendarWeeks)
       THEN weekIndex' = weekIndex + 1 /\ lpc' = "week"
       ELSE weekIndex' = weekIndex /\ lpc' = "rendered"
    /\ UNCHANGED <<tzOffset, now, currentDate, weekEvents, visited, eventRows,
                   eventPlacements, pvars, fvars, uvars, rvars, cvars, xvars>>

LayoutNext ==
    \/ GoToPreviousMonth
    \/ GoToNextMonth
    \/ GoToToday
    \/ BeginWeek
    \/ PlaceEvent
    \/ SkipEvent
    \/ EndWeek

InitLayout == LayoutInit /\ FoldIdle /\ TextIdle /\ RouteIdle /\ CallsIdle /\ ExtraIdle
SpecLayout == InitLayout /\ [][LayoutNext]_vars

\* The placements of the week are final.
WeekPlaced == lpc \in {"place", "rendered"} /\ visited = Len(weekEvents)

\* The columns of a placement.
Columns(p) == ColumnRange(p.startCol, p.span)

\* C1: two distinct placements of a week that share a row have disjoint
\* column ranges.
C1_NoOverlapInRow ==
    \A m, n \in 1..Len(eventPlacements) :
        (m # n /\ eventPlacements[m].row = eventPlacements[n].row)
            => Columns(eventPlacements[m]) \cap Columns(eventPlacements[n]) = {}

\* A week with two placements whose columns intersect and a week with two
\* placements in the same row.
C1_Witness ==
    /\ WeekPlaced
    /\ \E m, n \in 1..Len(eventPlacements) :
          /\ m # n
          /\ Columns(eventPlacements[m]) \cap Columns(eventPlacements[n]) # {}
          /\ eventPlacements[m].span > 1

\* C2: once a week is placed, an event has exactly one placement in it when
\* it spans a dated slot of the row, and none otherwise.
C2_VisibleEventPlacedOnce ==
    WeekPlaced =>
        \A n \in 1..Len(events) :
            LET spans  == \E c \in 1..7 : Week[c].dated /\ eventSpansDay(events[n], Week[c].date)
                placed == {m \in 1..Len(eventPlacements) : eventPlacements[m].event = events[n]}
            IN  Cardinality(placed) = (IF spans THEN 1 ELSE 0)

\* C9: for every parsed event the end the layout uses is not earlier than
\* its start.
C9_EndNotBeforeStart ==
    \A n \in 1..Len(events) :
        ~DateLT(getEventEndDate(events[n]), getEventStartDate(events[n]))

\* C10: the end the layout uses is the day before the feed end date for an
\* all-day event, the feed end itself for a timed event with an end, and the
\* start for an event without end.
C10_EffectiveEnd ==
    \A n \in 1..Len(events) :
        LET e == events[n]
            feedEnd == IF e.end.kind = "date"
                       THEN ParseDateTime(e.end.value \o T_MIDNIGHT, tzOffset)
                       ELSE ParseDateTime(e.end.value, tzOffset)
        IN  /\ (e.allDay /\ e.end.kind = "date") => getEventEndDate(e) = AddDays(feedEnd, -1)
            /\ (~e.allDay /\ e.end.kind # "undefined") => getEventEndDate(e) = feedEnd
            /\ e.end.kind = "undefined" => getEventEndDate(e) = getEventStartDate(e)

\* The dated days of the week row, each at midnight and at the time of day
\* of `now`.
WeekDays ==
    LET week == Week
    IN  {DateAt(week[c].date.day, ms) : c \in {c \in 1..7 : week[c].dated}, ms \in {0, now.ms}}

\* C11: an event spans a day exactly when the day lies between the calendar
\* day of its start and the calendar day of its effective end, whatever the
\* times of day.  The events and the days are those of the week whose
\* callback starts: every event of the view against every day of the row.
C11_SpansDayIffBetween ==
    (lpc = "place" /\ visited = 0) =>
        LET days == WeekDays
        IN  \A n \in 1..Len(events) :
                LET start == getEventStartDate(events[n])
                    end   == getEventEndDate(events[n])
                IN  \A t \in days :
                        eventSpansDay(events[n], t) <=>
                            (~start.nan /\ ~end.nan /\ start.day <= t.day /\ t.day <= end.day)

\* The all-day event of 10 June with end date 13 June placed in the week of
\* 8 June: it starts in the Tuesday column and spans three days.
C11_Witness ==
    /\ WeekPlaced
    /\ \E m \in 1..Len(eventPlacements) :
          /\ eventPlacements[m].event.start = DateOf(formatICalDate(DateToken(6, 10)))
          /\ eventPlacements[m].event.end = DateOf(formatICalDate(DateToken(6, 13)))
          /\ eventPlacements[m].startCol = 2 /\ eventPlacements[m].span = 3

\* Two events start at the same instant.
SameStart(a, b) ==
    /\ ~getEventStartDate(a).nan
    /\ getEventStartDate(a) = getEventStartDate(b)

\* Event a lasts longer than event b (effective end minus start).
LongerThan(a, b) ==
    LET da == TimeDiff(getEventEndDate(a), getEventStartDate(a))
        db == TimeDiff(getEventEndDate(b), getEventStartDate(b))
    IN  da[1] > db[1] \/ (da[1] = db[1] /\ da[2] > db[2])

CellsOf(placements) ==
    UNION {{<<placements[n].row, col>> : col \in Columns(placements[n])} :
              n \in 1..Len(placements)}

\* C19: the occupied cells are those of the placements of the week, and a
\* step that places an event gives it the smallest row whose cells over its
\* column range are all free: every lower row had an occupied cell of the
\* range, and exactly the cells of that row over the range become occupied.
C19_FirstFit ==
    /\ [](eventRows = CellsOf(eventPlacements))
    /\ [][Len(eventPlacements') > Len(eventPlacements) =>
            LET p     == eventPlacements'[Len(eventPlacements')]
                range == p.startCol..(p.startCol + p.span - 1)
            IN  /\ p.row >= 0 /\ p.span >= 1
                /\ \A c \in range : <<p.row, c>> \notin eventRows
                /\ \A r \in 0..(p.row - 1) : \E c \in range : <<r, c>> \in eventRows
                /\ eventRows' = eventRows \cup {<<p.row, c>> : c \in range}
                /\ \A c \in range : <<p.row, c>> \in eventRows']_vars

\* A week where the second event is placed in row 0 beside the first: its
\* column range lies after that of the first, which spans several columns.
C19_Witness ==
    /\ WeekPlaced /\ Len(eventPlacements) = 2
    /\ eventPlacements[1].row = 0 /\ eventPlacements[1].span > 1
    /\ eventPlacements[2].row = 0
    /\ eventPlacements[2].startCol = eventPlacements[1].startCol + eventPlacements[1].span

\* The position of an event in the list the month view was given.
InputIndex(event) == CHOOSE n \in 1..Len(events) : events[n] = event

SpannedCols(event, week) ==
    {c \in 0..6 : week[c + 1].dated /\ eventSpansDay(event, week[c + 1].date)}

\* The first dated slot of a week row.
FirstDatedCol(week) ==
    CHOOSE c \in 0..6 : week[c + 1].dated /\ \A d \in 0..(c - 1) : ~week[d + 1].dated

\* C21: the start column of every placement is a dated slot on which the
\* event spans and no earlier slot of the row is one; for an event that
\* started before the first dated day of the row it is the first dated slot.
C21_StartColFirstSpannedSlot ==
    WeekPlaced =>
        LET week == Week
        IN  \A n \in 1..Len(eventPlacements) :
                LET p    == eventPlacements[n]
                    cols == SpannedCols(p.event, week)
                IN  /\ p.startCol \in cols
                    /\ \A c \in cols : p.startCol <= c
                    /\ getEventStartDate(p.event).day < week[FirstDatedCol(week) + 1].date.day
                           => p.startCol = FirstDatedCol(week)

\* The first week row of July 2025, whose first two slots are padding, with
\* the event of 28 June to 2 July placed from the slot of 1 July on.
C21_Witness ==
    /\ WeekPlaced /\ weekIndex = 0
    /\ ~Week[1].dated /\ ~Week[2].dated /\ Week[3].dated
    /\ \E n \in 1..Len(eventPlacements) :
          /\ eventPlacements[n].startCol = 2
          /\ getEventStartDate(eventPlacements[n].event).day < Week[3].date.day

\* C22: the span of every placement is the number of consecutive dated
\* slots from the start column on which the event spans; all slots of
\* startCol .. startCol + span - 1 are dated and spanned, the slot after
\* them is not, and 0 <= startCol <= 6, 1 <= span <= 7, startCol + span <= 7.
C22_SpanIsConsecutiveSpannedSlots ==
    WeekPlaced =>
        LET week == Week
        IN  \A n \in 1..Len(eventPlacements) :
                LET p    == eventPlacements[n]
                    cols == SpannedCols(p.event, week)
                IN  /\ p.startCol \in 0..6 /\ p.span \in 1..7
                    /\ p.startCol + p.span <= 7
                    /\ \A c \in p.startCol..(p.startCol + p.span - 1) : c \in cols
                    /\ (p.startCol + p.span) \notin cols

\* The last week row of June 2025 (29 and 30 June, then padding) with the
\* event of 28 June to 2 July placed on its two dated slots.
C22_Witness ==
    /\ WeekPlaced /\ Week[2].dated /\ ~Week[3].dated
    /\ \E n \in 1..Len(eventPlacements) :
          /\ eventPlacements[n].startCol = 0 /\ eventPlacements[n].span = 2
          /\ getEventEndDate(eventPlacements[n].event).day > Week[2].date.day

----------------------------------------------------------------------------
(* The month grid on its own: the calendar is mounted in any month of the  *)
(* years from that of NowDate on, without events, and the months are       *)
(* rendered row by row and navigated.                                      *)
MaxYearsAhead == 9

GridNows ==
    {DateAt(NewDateYMD(GetFullYear(NowDate) + y, m, GetDate(NowDate)).day, NowDate.ms) :
        y \in 0..MaxYearsAhead, m \in 0..11}

GridInit ==
    /\ icalData = <<>> /\ lines = <<>> /\ i = 0
    /\ currentEvent = NoEvent /\ events = <<>> /\ pc = "done"
    /\ tzOffset = 0
    /\ now \in GridNows
    /\ currentDate = now
    /\ weekIndex = 0 /\ weekEvents = <<>> /\ visited = 0
    /\ eventRows = {} /\ eventPlacements = <<>> /\ lpc = "week"

GridNext ==
    \/ GoToPreviousMonth
    \/ GoToNextMonth
    \/ GoToToday
    \/ BeginWeek
    \/ EndWeek

InitGrid == GridInit /\ FoldIdle /\ TextIdle /\ RouteIdle /\ CallsIdle /\ ExtraIdle
SpecGrid == InitGrid /\ [][GridNext]_vars

\* C12: the grid of the month shown has rows of 7 slots; day d sits at row
\* (f + d - 1) \div 7 and column (f + d - 1) % 7, with f the weekday of the
\* 1st counted from Sunday; the other slots are padding, which lies before
\* day 1 in the first row and after the last day in the last row.
C12_MonthGrid ==
    LET f    == GetDay(NewDateYMD(currentYear, currentMonth, 1))
        n    == DaysOfMonth(currentYear, currentMonth + 1)
        grid == calendarWeeks
        slot(w, c) == (w - 1) * 7 + c - f
    IN  /\ Len(grid) = (f + n + 6) \div 7
        /\ \A w \in 1..Len(grid) :
               /\ Len(grid[w]) = 7
               /\ \E c \in 1..7 : grid[w][c].dated
               /\ \A c \in 1..7 :
                      IF slot(w, c) \in 1..n
                      THEN grid[w][c] = [day |-> slot(w, c), dated |-> TRUE,
                                         date |-> NewDateYMD(currentYear, currentMonth, slot(w, c))]
                      ELSE /\ grid[w][c] = EmptyCell
                           /\ (slot(w, c) < 1 => w = 1)
                           /\ (slot(w, c) > n => w = Len(grid))
        /\ \A d \in 1..n :
               /\ grid[((f + d - 1) \div 7) + 1][((f + d - 1) % 7) + 1].day = d
               /\ Cardinality({x \in (1..Len(grid)) \X (1..7) :
                                   grid[x[1]][x[2]].dated /\ grid[x[1]][x[2]].day = d}) = 1

\* A month of six rows rendered to its last row: the first row starts with
\* padding and the last row holds a single day.
C12_Witness ==
    /\ lpc = "rendered"
    /\ Len(calendarWeeks) = 6
    /\ ~calendarWeeks[1][1].dated
    /\ calendarWeeks[6][1].dated /\ ~calendarWeeks[6][2].dated

----------------------------------------------------------------------------
(* The route: GET parses the feed text and filters the events by the time  *)
(* range of the request.  tzOffset is the zone of the server process.      *)

\* new Date(text) on the server: the date-only form YYYY-MM-DD is midnight
\* UTC, the form of toISOString, YYYY-MM-DDTHH:MM:SS.sssZ, carries
\* milliseconds, the other forms are those of ParseDateTime.
NewDate(text, offset) ==
    IF Len(text) = 10 THEN ParseDateTime(text \o T_MIDNIGHT \o <<"Z">>, offset)
    ELSE IF /\ Len(text) = 24 /\ text[20] = "." /\ text[24] = "Z"
            /\ AllDigits(SubSeq(text, 21, 23))
         THEN (IF ParseDateTime(SubSeq(text, 1, 19) \o <<"Z">>, offset).nan THEN InvalidDate
               ELSE DateAt(ParseDateTime(SubSeq(text, 1, 19) \o <<"Z">>, offset).day,
                           ParseDateTime(SubSeq(text, 1, 19) \o <<"Z">>, offset).ms
                           + ToNumber(SubSeq(text, 21, 23))))
    ELSE ParseDateTime(text, offset)

\* a.start.dateTime || a.start.date || ''
StartText(event) ==
    IF Truthy(event.start, "dateTime") \/ Truthy(event.start, "date")
    THEN event.start.value ELSE <<>>

\* A filter predicate with the bounds excluded.
InRangeExclusive(event, minDate, maxDate) ==
    /\ StartText(event) # <<>>
    /\ DateLT(minDate, NewDate(StartText(event), tzOffset))
    /\ DateLT(NewDate(StartText(event), tzOffset), maxDate)

\* The filter predicate of filterEventsByTimeRange.
InRange(event, minDate, maxDate) ==
    /\ StartText(event) # <<>>
    /\ DateGE(NewDate(StartText(event), tzOffset), minDate)
    /\ DateLE(NewDate(StartText(event), tzOffset), maxDate)

\* events.filter(...) of filterEventsByTimeRange
RECURSIVE FilterInRange(_, _, _)
FilterInRange(evs, minDate, maxDate) ==
    IF evs = <<>> THEN <<>>
    ELSE (IF InRange(Head(evs), minDate, maxDate) THEN <<Head(evs)>> ELSE <<>>)
         \o FilterInRange(Tail(evs), minDate, maxDate)

\* The sign of the sort comparator of filterEventsByTimeRange; NaN counts as 0.
CompareStarts(a, b) ==
    IF NewDate(StartText(a), tzOffset).nan \/ NewDate(StartText(b), tzOffset).nan THEN 0
    ELSE IF DateLT(NewDate(StartText(a), tzOffset), NewDate(StartText(b), tzOffset)) THEN -1
    ELSE IF DateLT(NewDate(StartText(b), tzOffset), NewDate(StartText(a), tzOffset)) THEN 1
    ELSE 0

BeforeByStart(evs, m, j) ==
    IF CompareStarts(evs[m], evs[j]) = 0 THEN m < j
    ELSE CompareStarts(evs[m], evs[j]) < 0

RankByStart(evs, j) == 1 + Cardinality({m \in 1..Len(evs) : BeforeByStart(evs, m, j)})

\* .sort(...) of filterEventsByTimeRange (stable)
SortByStart(evs) ==
    [p \in 1..Len(evs) |-> evs[CHOOSE j \in 1..Len(evs) : RankByStart(evs, j) = p]]

\* filterEventsByTimeRange
filterEventsByTimeRange(evs, tmin, tmax) ==
    SortByStart(FilterInRange(evs, NewDate(tmin, tzOffset), NewDate(tmax, tzOffset)))

\* null, the result of a match that found nothing
Null == [kind |-> "null", value |-> <<>>]

\* Line terminators, which the '.' of a regular expression does not match.
LineTerminators == {LF, CR}

\* White space that trim() removes.
WhiteSpace == {SP, TAB, LF, CR}

\* text.trim()
RECURSIVE Trim(_)
Trim(text) ==
    IF text = <<>> THEN text
    ELSE IF text[1] \in WhiteSpace THEN Trim(Tail(text))
    ELSE IF text[Len(text)] \in WhiteSpace THEN Trim(SubSeq(text, 1, Len(text) - 1))
    ELSE text

\* text.match(/KEY(.+)/): the first place where the key is followed by a
\* character other than a line terminator, and the capture group, which
\* runs to the next line terminator or the end of the text.
MatchRest(text, key) ==
    LET places == {k \in 1..(Len(text) - Len(key)) :
                      /\ SubSeq(text, k, k + Len(key) - 1) = key
                      /\ text[k + Len(key)] \notin LineTerminators}
        at     == CHOOSE k \in places : \A m \in places : k <= m
        from   == at + Len(key)
        stops  == {k \in from..Len(text) : text[k] \in LineTerminators}
        to     == IF stops = {} THEN Len(text)
                  ELSE (CHOOSE k \in stops : \A m \in stops : k <= m) - 1
    IN  IF places = {} THEN Null ELSE TextOf(SubSeq(text, from, to))

X_WR_CALNAME  == <<"X", "-", "W", "R", "-", "C", "A", "L", "N", "A", "M", "E", ":">>
X_WR_TIMEZONE == <<"X", "-", "W", "R", "-", "T", "I", "M", "E", "Z", "O", "N", "E", ":">>
DefaultName   == <<"C", "a", "l", "e", "n", "d", "a", "r">>
DefaultZone   == <<"U", "T", "C">>

\* extractCalendarName
extractCalendarName(text) ==
    IF MatchRest(text, X_WR_CALNAME) = Null THEN Null
    ELSE TextOf(unescapeICalText(Trim(MatchRest(text, X_WR_CALNAME).value)))

\* extractTimeZone
extractTimeZone(text) ==
    IF MatchRest(text, X_WR_TIMEZONE) = Null THEN Null
    ELSE TextOf(Trim(MatchRest(text, X_WR_TIMEZONE).value))

\* a || b for a text or null a
OrElse(a, b) == IF Truthy(a, "text") THEN a.value ELSE b

\* Feeds with one event and the two metadata lines absent, in the header,
\* inside the event block or after it, and with an event description that
\* quotes one of the two keys.
MetaSlots  == {"none", "header", "inside", "after"}
MetaQuotes == {"none", "name", "zone"}
NameLine   == X_WR_CALNAME \o <<"a", BS, ",", "b">>
ZoneLine   == X_WR_TIMEZONE \o <<"E", "/", "R">>
QuoteLine(quote) ==
    K_DESCRIPTION \o <<":", "s", "e", "e", SP>>
    \o (IF quote = "name" THEN X_WR_CALNAME ELSE X_WR_TIMEZONE) \o <<"q">>

MetaAt(slot, name, zone) ==
    (IF name = slot THEN <<NameLine>> ELSE <<>>) \o (IF zone = slot THEN <<ZoneLine>> ELSE <<>>)

MetaLines(name, zone, quote) ==
    <<BEGIN_VCALENDAR>> \o MetaAt("header", name, zone)
    \o <<BEGIN_VEVENT, UidLine(<<"a">>), DtStartDate(DateToken(6, 11))>>
    \o MetaAt("inside", name, zone)
    \o (IF quote = "none" THEN <<>> ELSE <<QuoteLine(quote)>>)
    \o <<END_VEVENT>> \o MetaAt("after", name, zone) \o <<END_VCALENDAR>>

MetaFeeds ==
    {JoinLines(MetaLines(name, zone, quote), eol) :
        name \in MetaSlots, zone \in MetaSlots, quote \in MetaQuotes, eol \in EndOfLines}

MaxRouteEvents == 2

\* The DTSTART / DTEND lines of the events of the route: starts on the lower
\* bound, at local midnight of that day, before the lower bound with an end
\* inside the range, inside the range, with an invalid token, on the upper
\* bound and a minute after it.
RouteFields ==
    { <<DtStartDate(DateToken(6, 10))>>,
      <<DtStartTime(TimeToken(6, 10, 0, 0, FALSE))>>,
      <<DtStartTime(TimeToken(6, 9, 23, 30, TRUE)), DtEndTime(TimeToken(6, 11, 9, 0, TRUE))>>,
      <<DtStartDate(DateToken(6, 11))>>,
      <<DtStartTime(<<"x">>)>>,
      <<DtStartDate(DateToken(6, 12))>>,
      <<DtStartTime(TimeToken(6, 12, 0, 1, TRUE))>> }

RECURSIVE RouteLines(_, _)
RouteLines(fields, j) ==
    IF j > Len(fields) THEN <<>>
    ELSE <<BEGIN_VEVENT, UidLine(<<UidLetters[j]>>)>> \o fields[j]
         \o <<END_VEVENT>> \o RouteLines(fields, j + 1)

RouteFeeds ==
    {JoinLines(RouteLines(fields, 1), <<LF>>) :
        fields \in UNION {[1..n -> RouteFields] : n \in 0..MaxRouteEvents}}

\* 2025-06-10T00:00:00.000Z (as toISOString writes it) and 2025-06-11T00:00:00Z
TimeMins ==
    { formatICalDate(DateToken(6, 10)) \o T_MIDNIGHT \o <<".", "0", "0", "0", "Z">>,
      formatICalDate(DateToken(6, 11)) \o T_MIDNIGHT \o <<"Z">> }

\* 2025-06-12T00:00:00.000Z
TimeMaxs ==
    { formatICalDate(DateToken(6, 12)) \o T_MIDNIGHT \o <<".", "0", "0", "0", "Z">> }

RouteInit ==
    /\ icalData \in RouteFeeds \cup MetaFeeds
    /\ lines = <<>> /\ i = 0 /\ currentEvent = NoEvent /\ events = <<>> /\ pc = "idle"
    /\ tzOffset \in TimeZones /\ now = NowDate /\ currentDate = now
    /\ weekIndex = 0 /\ weekEvents = <<>> /\ visited = 0
    /\ eventRows = {} /\ eventPlacements = <<>> /\ lpc = "idle"
    /\ timeMin \in TimeMins /\ timeMax \in TimeMaxs
    /\ filteredEvents = <<>> /\ rpc = "fetched"
    /\ summary = <<>> /\ timeZone = <<>>

\* GET: const events = parseICalEvents(icalData)
RouteParse ==
    /\ rpc = "fetched"
    /\ events' = parseICalEvents(icalData)
    /\ rpc' = "parsed"
    /\ UNCHANGED <<icalData, lines, i, currentEvent, pc, timeMin, timeMax, filteredEvents,
                   summary, timeZone, fvars, uvars, lvars, cvars, xvars>>

\* GET: const filteredEvents = filterEventsByTimeRange(events, timeMin, timeMax)
RouteFilter ==
    /\ rpc = "parsed"
    /\ filteredEvents' = filterEventsByTimeRange(events, timeMin, timeMax)
    /\ rpc' = "filtered"
    /\ UNCHANGED <<timeMin, timeMax, summary, timeZone, pvars, fvars, uvars, lvars, cvars, xvars>>

\* GET: NextResponse.json({ summary: extractCalendarName(icalData) || 'Calendar',
\* timeZone: extractTimeZone(icalData) || 'UTC', events: filteredEvents, ... })
RouteRespond ==
    /\ rpc = "filtered"
    /\ summary' = OrElse(extractCalendarName(icalData), DefaultName)
    /\ timeZone' = OrElse(extractTimeZone(icalData), DefaultZone)
    /\ rpc' = "responded"
    /\ UNCHANGED <<timeMin, timeMax, filteredEvents, pvars, fvars, uvars, lvars, cvars, xvars>>

RouteNext == RouteParse \/ RouteFilter \/ RouteRespond
InitRoute == RouteInit /\ FoldIdle /\ TextIdle /\ CallsIdle /\ ExtraIdle
SpecRoute == InitRoute /\ [][RouteNext]_vars

\* C14: the filtered list holds exactly the events whose start lies in the
\* range, bounds included, each once, ordered by start ascending.
C14_FilterByStartInRange ==
    rpc = "responded" =>
        LET b(e)     == NewDate(StartText(e), tzOffset)
            lo       == NewDate(timeMin, tzOffset)
            hi       == NewDate(timeMax, tzOffset)
            inside(e) == ~b(e).nan /\ DateLE(lo, b(e)) /\ DateLE(b(e), hi)
        IN  /\ \A n \in 1..Len(events) :
                   Cardinality({m \in 1..Len(filteredEvents) : filteredEvents[m] = events[n]})
                       = (IF inside(events[n]) THEN 1 ELSE 0)
            /\ \A m \in 1..Len(filteredEvents) :
                   \E n \in 1..Len(events) : filteredEvents[m] = events[n]
            /\ \A m \in 1..(Len(filteredEvents) - 1) :
                   DateLE(b(filteredEvents[m]), b(filteredEvents[m + 1]))

\* The feed lists the event that starts on the upper bound before the event
\* that starts on the lower bound: both are kept, in the other order.
C14_Witness ==
    /\ rpc = "responded" /\ Len(events) = 2
    /\ timeMin \in TimeMins /\ Len(timeMin) = 24
    /\ events[1].start = DateOf(formatICalDate(DateToken(6, 12)))
    /\ events[2].start = DateOf(formatICalDate(DateToken(6, 10)))
    /\ filteredEvents = <<events[2], events[1]>>

\* The metadata lines of a feed text for a key: its lines that begin with
\* the key, in feed order.
MetaLinesOf(text, key) ==
    LET ls == SplitLines(text)
    IN  {n \in 1..Len(ls) : StartsWith(ls[n], key)}

\* The value of the first metadata line for the key.
FirstMetaValue(text, key) ==
    LET ls == SplitLines(text)
        n  == CHOOSE m \in MetaLinesOf(text, key) : \A k \in MetaLinesOf(text, key) : m <= k
    IN  SubSeq(ls[n], Len(key) + 1, Len(ls[n]))

\* C26: the summary of the response is the unescaped value of the feed's
\* X-WR-CALNAME line and its timeZone the value of the X-WR-TIMEZONE line,
\* wherever the line stands; a feed without the line gets 'Calendar',
\* respectively 'UTC'.
C26_MetadataFromFeedLines ==
    rpc = "responded" =>
        /\ summary = IF MetaLinesOf(icalData, X_WR_CALNAME) = {} THEN DefaultName
                      ELSE unescapeICalText(FirstMetaValue(icalData, X_WR_CALNAME))
        /\ timeZone = IF MetaLinesOf(icalData, X_WR_TIMEZONE) = {} THEN DefaultZone
                       ELSE FirstMetaValue(icalData, X_WR_TIMEZONE)

----------------------------------------------------------------------------
(* The overlay of a week row of the month view: the placements that are    *)
(* drawn and the line that counts the rest.                                 *)

MaxOverlayEvents == 4

\* The events of the overlay, as indices into LayoutFields: three that
\* cover 10 June, one without a span and one from 13 June on.
OverlayKinds == <<1, 2, 3, 5, 6>>

OverlayChoices ==
    {choice \in UNION {[1..n -> 1..Len(OverlayKinds)] : n \in 0..MaxOverlayEvents} :
        \A k \in 1..(Len(choice) - 1) : choice[k] <= choice[k + 1]}

RECURSIVE OverlayLines(_, _)
OverlayLines(choice, j) ==
    IF j > Len(choice) THEN <<>>
    ELSE <<BEGIN_VEVENT, UidLine(<<DigitChars[j + 1]>>)>> \o LayoutFields[OverlayKinds[choice[j]]]
         \o <<END_VEVENT>> \o OverlayLines(choice, j + 1)

OverlayFeeds == {JoinLines(OverlayLines(choice, 1), <<LF>>) : choice \in OverlayChoices}

\* The placements with a row among the first three.
VisibleInRows(placements) == SelectSeq(placements, LAMBDA p : p.row <= 2)

\* eventPlacements.slice(0, 3)
VisiblePlacements(placements) ==
    SubSeq(placements, 1, IF Len(placements) < 3 THEN Len(placements) ELSE 3)

OverlayInit ==
    /\ icalData \in OverlayFeeds
    /\ lines = SplitLines(icalData) /\ i = Len(lines)
    /\ currentEvent = NoEvent /\ pc = "done"
    /\ events = parseICalEvents(icalData)
    /\ tzOffset \in TimeZones
    /\ now = NowDate
    /\ currentDate = now
    /\ weekIndex = 0 /\ weekEvents = <<>> /\ visited = 0
    /\ eventRows = {} /\ eventPlacements = <<>> /\ lpc = "week"
    /\ drawn = <<>> /\ overflow = NoOverflow

\* The week row is returned with its overlay: the first three placements
\* and, past three, the line "+k more"; the map goes on to the next week
\* or ends.
DrawWeek ==
    /\ lpc = "place" /\ visited = Len(weekEvents)
    /\ drawn' = VisiblePlacements(eventPlacements)
    /\ overflow' = (IF Len(eventPlacements) > 3
                    THEN [shown |-> TRUE, count |-> Len(eventPlacements) - 3]
                    ELSE NoOverflow)
    /\ IF weekIndex + 1 < Len(calendarWeeks)
       THEN weekIndex' = weekIndex + 1 /\ lpc' = "week"
       ELSE weekIndex' = weekIndex /\ lpc' = "rendered"
    /\ UNCHANGED <<tzOffset, now, currentDate, weekEvents, visited, eventRows,
                   eventPlacements, pvars, fvars, uvars, rvars, cvars, wvars, hvars, qvars>>

OverlayNext == BeginWeek \/ PlaceEvent \/ SkipEvent \/ DrawWeek
InitOverlay == OverlayInit /\ FoldIdle /\ TextIdle /\ RouteIdle /\ CallsIdle /\ WeekIdle /\ PageIdle /\ ConfigIdle
SpecOverlay == InitOverlay /\ [][OverlayNext]_vars

\* A week row has just been returned: its placements are still in place.
WeekDrawn == lpc \in {"week", "rendered"} /\ (weekIndex > 0 \/ lpc = "rendered")

\* C29: a week row draws exactly the first min(3, n) of its n placements,
\* in their order, each in a row of at most 2; the line "+k more" is shown
\* exactly when n > 3, with k = n - 3; and drawing leaves the list of
\* placements as it was.
C29_OverlayShowsFirstThree ==
    /\ [](WeekDrawn =>
            LET n == Len(eventPlacements)
                m == IF n < 3 THEN n ELSE 3
            IN  /\ Len(drawn) = m
                /\ \A k \in 1..m : drawn[k] = eventPlacements[k] /\ drawn[k].row <= 2
                /\ overflow.shown <=> n > 3
                /\ overflow.shown => overflow.count = n - 3)
    /\ [][(lpc = "place" /\ lpc' # "place") => eventPlacements' = eventPlacements]_vars

\* A week with four placements, the fourth in the first row, is drawn.
C29_Witness ==
    /\ WeekDrawn
    /\ Len(eventPlacements) = 4 /\ eventPlacements[4].row = 0
    /\ Len(drawn) = 3 /\ overflow = [shown |-> TRUE, count |-> 1]

----------------------------------------------------------------------------
(* The week view: the window of seven days around currentDate, the events  *)
(* of the window and the events listed under each day.                     *)

MaxWeeksAway == 2

\* The DTSTART / DTEND lines of the events of the week view: all day on
\* Sunday 8 June, all day from 10 to 12 June, at 10:00 on 10 June, all day
\* on Saturday 14 June, at 16:00 that Saturday, all day on 18 June.
WeekFields ==
    << <<DtStartDate(DateToken(6, 8)), DtEndDate(DateToken(6, 9))>>,
       <<DtStartDate(DateToken(6, 10)), DtEndDate(DateToken(6, 13))>>,
       <<DtStartTime(TimeToken(6, 10, 10, 0, FALSE)), DtEndTime(TimeToken(6, 10, 11, 0, FALSE))>>,
       <<DtStartDate(DateToken(6, 14)), DtEndDate(DateToken(6, 15))>>,
       <<DtStartTime(TimeToken(6, 14, 16, 0, FALSE)), DtEndTime(TimeToken(6, 14, 17, 0, FALSE))>>,
       <<DtStartDate(DateToken(6, 18)), DtEndDate(DateToken(6, 19))>> >>

RECURSIVE WeekViewLines(_, _)
WeekViewLines(choice, j) ==
    IF j > Len(choice) THEN <<>>
    ELSE <<BEGIN_VEVENT, UidLine(<<UidLetters[j]>>)>> \o WeekFields[choice[j]]
         \o <<END_VEVENT>> \o WeekViewLines(choice, j + 1)

\* The events in the order of their starts, as the route returns them.
WeekChoices ==
    {choice \in UNION {[1..n -> 1..Len(WeekFields)] : n \in 0..MaxEvents} :
        \A k \in 1..(Len(choice) - 1) : choice[k] <= choice[k + 1]}

WeekFeeds == {JoinLines(WeekViewLines(choice, 1), <<LF>>) : choice \in WeekChoices}

\* const startOfWeek = new Date(currentDate);
\* startOfWeek.setDate(currentDate.getDate() - currentDate.getDay())
startOfWeek == AddDays(currentDate, 0 - GetDay(currentDate))

\* weekDays: startOfWeek and the six days after it, at its time of day.
weekDays == [n \in 1..7 |-> AddDays(startOfWeek, n - 1)]

\* The filter predicate of weekEvents in the week view.
InWeekView(event, days) ==
    /\ DateLE(getEventStartDate(event), days[7])
    /\ DateGE(getEventEndDate(event), days[1])

RECURSIVE FilterWeekView(_, _)
FilterWeekView(evs, days) ==
    IF evs = <<>> THEN <<>>
    ELSE (IF InWeekView(Head(evs), days) THEN <<Head(evs)>> ELSE <<>>)
         \o FilterWeekView(Tail(evs), days)

\* weekEvents.filter(event => eventSpansDay(event, day))
RECURSIVE FilterSpansDay(_, _)
FilterSpansDay(evs, day) ==
    IF evs = <<>> THEN <<>>
    ELSE (IF eventSpansDay(Head(evs), day) THEN <<Head(evs)>> ELSE <<>>)
         \o FilterSpansDay(Tail(evs), day)

\* Whole weeks between the week of currentDate and the week of now.
WeeksAway == (currentDate.day - GetDay(currentDate) - (now.day - GetDay(now))) \div 7

WeekViewInit ==
    /\ icalData \in WeekFeeds
    /\ lines = SplitLines(icalData) /\ i = Len(lines)
    /\ currentEvent = NoEvent /\ pc = "done"
    /\ events = parseICalEvents(icalData)
    /\ tzOffset \in TimeZones
    /\ now = NowDate
    /\ currentDate = now
    /\ weekIndex = 0 /\ weekEvents = <<>> /\ visited = 0
    /\ eventRows = {} /\ eventPlacements = <<>> /\ lpc = "idle"
    /\ dayEvents = <<>> /\ wpc = "stale"

\* The render of the week view: weekEvents and, per day, dayEvents.
RenderWeek ==
    /\ wpc = "stale"
    /\ weekEvents' = FilterWeekView(events, weekDays)
    /\ dayEvents' = [n \in 1..7 |-> FilterSpansDay(FilterWeekView(events, weekDays), weekDays[n])]
    /\ wpc' = "rendered"
    /\ UNCHANGED <<tzOffset, now, currentDate, weekIndex, visited, eventRows, eventPlacements,
                   lpc, pvars, fvars, uvars, rvars, cvars, hvars, ovars, qvars>>

Restale ==
    /\ wpc' = "stale"
    /\ UNCHANGED <<tzOffset, now, weekIndex, weekEvents, visited, eventRows, eventPlacements,
                   lpc, dayEvents, pvars, fvars, uvars, rvars, cvars, hvars, ovars, qvars>>

\* goToPreviousWeek
GoToPreviousWeek ==
    /\ wpc = "rendered" /\ WeeksAway > 0 - MaxWeeksAway
    /\ currentDate' = AddDays(currentDate, -7)
    /\ Restale

\* goToNextWeek
GoToNextWeek ==
    /\ wpc = "rendered" /\ WeeksAway < MaxWeeksAway
    /\ currentDate' = AddDays(currentDate, 7)
    /\ Restale

\* goToToday in the week view
WeekGoToToday ==
    /\ wpc = "rendered" /\ currentDate # now
    /\ currentDate' = now
    /\ Restale

WeekViewNext == RenderWeek \/ GoToPreviousWeek \/ GoToNextWeek \/ WeekGoToToday
InitWeekView == WeekViewInit /\ FoldIdle /\ TextIdle /\ RouteIdle /\ CallsIdle /\ PageIdle /\ OverlayIdle /\ ConfigIdle
SpecWeekView == InitWeekView /\ [][WeekViewNext]_vars

\* The events that span the day with the given number.
RECURSIVE SpanningDay(_, _)
SpanningDay(evs, day) ==
    IF evs = <<>> THEN <<>>
    ELSE (IF eventSpansDay(Head(evs), DateAt(day, 0)) THEN <<Head(evs)>> ELSE <<>>)
         \o SpanningDay(Tail(evs), day)

\* C27: in the rendered week view the events under each of the seven days
\* from the Sunday of the week of currentDate on are exactly the events of
\* the view that span that day.
C27_DayEventsAreSpanningEvents ==
    wpc = "rendered" =>
        \A n \in 1..7 :
            dayEvents[n] = SpanningDay(events, currentDate.day - GetDay(currentDate) + n - 1)

----------------------------------------------------------------------------
(* The pages: fetchCalendarData and the effect that calls it.              *)

MaxFetches == 3

\* decodeURIComponent, for texts whose only escape is %40.
decodeURIComponent(text) == ReplaceAll(text, <<"%", "4", "0">>, <<"@">>)

SRC_EQ == <<"s", "r", "c", "=">>
HTTP   == <<"h", "t", "t", "p">>

\* url.match(/src=([^&]+)/): the first place where src= is followed by a
\* character other than &, and the capture group, which runs to the next &.
MatchSrc(url) ==
    LET places == {k \in 1..(Len(url) - Len(SRC_EQ)) :
                      /\ SubSeq(url, k, k + Len(SRC_EQ) - 1) = SRC_EQ
                      /\ url[k + Len(SRC_EQ)] # "&"}
        at     == CHOOSE k \in places : \A m \in places : k <= m
        from   == at + Len(SRC_EQ)
        stops  == {k \in from..Len(url) : url[k] = "&"}
        to     == IF stops = {} THEN Len(url)
                  ELSE (CHOOSE k \in stops : \A m \in stops : k <= m) - 1
    IN  IF places = {} THEN Null ELSE TextOf(SubSeq(url, from, to))

\* extractCalendarId: the other three patterns match only where the first
\* does, with the same capture group.
extractCalendarId(url) ==
    IF MatchSrc(url) # Null THEN TextOf(decodeURIComponent(MatchSrc(url).value))
    ELSE IF Includes(url, <<"@">>) /\ ~Includes(url, HTTP) THEN TextOf(url)
    ELSE Null

ID_A == <<"a", "@", "g">>
ID_B == <<"b", "@", "g">>
ID_C == <<"c", "@", "g">>
ID_D == <<"d", "@", "g">>

\* config.calendarUrl: ids, an embed query, a page address without src
\* and a word.
CalendarUrls ==
    {ID_A, ID_B, ID_D, SRC_EQ \o <<"c", "%", "4", "0", "g", "&", "x">>,
     HTTP \o <<":", "h", "@", "g">>, <<"x">>}

NoError == "null"

\* What /api/calendar answers for a calendar id: response.ok and the body.
\* Calendar a has one event and a name, b two events and no name, c is
\* not public and d answers without a body that names an error.
Response(id) ==
    IF id = ID_A THEN [ok |-> TRUE, events |-> <<"a1">>, summary |-> "Team", error |-> ""]
    ELSE IF id = ID_B THEN [ok |-> TRUE, events |-> <<"b1", "b2">>, summary |-> "", error |-> ""]
    ELSE IF id = ID_C THEN [ok |-> FALSE, events |-> <<>>, summary |-> "",
                            error |-> "Calendar not found or not public. Make sure the calendar is set to public."]
    ELSE [ok |-> FALSE, events |-> <<>>, summary |-> "", error |-> ""]

Pending == {k \in 1..Len(fetches) : ~fetches[k].settled}

PageInit ==
    /\ page \in {"home", "embed"}
    /\ shownEvents = <<>>
    /\ calendarName = ""
    /\ error = NoError
    /\ loading = (page = "embed")
    /\ fetches = <<>>
    /\ latest = "mounted"

\* The effect runs for an empty calendarUrl.
EffectWithoutUrl ==
    /\ latest # "empty"
    /\ IF page = "home"
       THEN /\ shownEvents' = <<>> /\ calendarName' = "" /\ error' = NoError
            /\ UNCHANGED loading
       ELSE /\ loading' = FALSE /\ error' = "No calendar URL provided"
            /\ UNCHANGED <<shownEvents, calendarName>>
    /\ latest' = "empty"
    /\ UNCHANGED <<page, fetches, pvars, fvars, uvars, lvars, rvars, cvars, wvars, ovars, qvars>>

\* The effect runs for a calendarUrl and fetchCalendarData is called (on
\* the home page once the 500 ms timer fires): the call up to its await.
FetchStart ==
    /\ Len(fetches) < MaxFetches
    /\ \E url \in CalendarUrls :
          LET calendarId == extractCalendarId(url) IN
          IF calendarId = Null
          THEN /\ latest # "invalid"
               /\ error' = "Invalid calendar URL or ID"
               /\ loading' = (IF page = "embed" THEN FALSE ELSE loading)
               /\ latest' = "invalid"
               /\ UNCHANGED fetches
          ELSE /\ loading' = TRUE
               /\ error' = NoError
               /\ fetches' = Append(fetches, [id |-> calendarId.value, settled |-> FALSE])
               /\ latest' = "fetch"
    /\ UNCHANGED <<page, shownEvents, calendarName, pvars, fvars, uvars, lvars, rvars, cvars, wvars, ovars, qvars>>

\* A pending call resumes with the response: the rest of fetchCalendarData.
FetchSettle ==
    /\ \E k \in Pending :
          LET data == Response(fetches[k].id) IN
          /\ IF data.ok
             THEN /\ shownEvents' = data.events
                  /\ calendarName' = (IF data.summary # "" THEN data.summary ELSE "Calendar")
                  /\ error' = NoError
             ELSE /\ error' = (IF data.error # "" THEN data.error ELSE "Failed to fetch calendar")
                  /\ shownEvents' = <<>>
                  /\ UNCHANGED calendarName
          /\ loading' = FALSE
          /\ fetches' = [fetches EXCEPT ![k].settled = TRUE]
    /\ UNCHANGED <<page, latest, pvars, fvars, uvars, lvars, rvars, cvars, wvars, ovars, qvars>>

PageNext == EffectWithoutUrl \/ FetchStart \/ FetchSettle
InitPage == PageInit /\ ParseIdle /\ FoldIdle /\ TextIdle /\ LayoutIdle /\ RouteIdle /\ CallsIdle /\ WeekIdle /\ OverlayIdle /\ ConfigIdle
SpecPage == InitPage /\ [][PageNext]_vars

\* C28: once every call has settled, and the last run of the effect made a
\* call, the page shows what the response to the latest call gives:
\* its events and name without an error, or its error without events.
C28_LatestFetchWins ==
    (latest = "fetch" /\ Len(fetches) >= 2 /\ Pending = {}) =>
        LET data == Response(fetches[Len(fetches)].id) IN
        IF data.ok
        THEN /\ shownEvents = data.events
             /\ calendarName = (IF data.summary # "" THEN data.summary ELSE "Calendar")
             /\ error = NoError
        ELSE /\ shownEvents = <<>>
             /\ error = (IF data.error # "" THEN data.error ELSE "Failed to fetch calendar")

----------------------------------------------------------------------------
(* The configuration on its way from the home page to the embed page:      *)
(* configToQueryString, URLSearchParams and queryStringToConfig.           *)

MaxEdits == 2

\* The fields of a CalendarConfig that the model carries, in the order of
\* the object's keys, with the list of queryStringToConfig each is in.
FieldOrder ==
    <<"calendarUrl", "showTitle", "showPrint", "borderRadius", "fontFamily",
      "maxHeight", "containerPadding">>

stringFields  == {"calendarUrl", "fontFamily", "maxHeight"}
booleanFields == {"showTitle", "showPrint"}
numberFields  == {"borderRadius", "containerPadding"}

KeyText ==
    [calendarUrl      |-> <<"c", "a", "l", "e", "n", "d", "a", "r", "U", "r", "l">>,
     showTitle        |-> <<"s", "h", "o", "w", "T", "i", "t", "l", "e">>,
     showPrint        |-> <<"s", "h", "o", "w", "P", "r", "i", "n", "t">>,
     borderRadius     |-> <<"b", "o", "r", "d", "e", "r", "R", "a", "d", "i", "u", "s">>,
     fontFamily       |-> <<"f", "o", "n", "t", "F", "a", "m", "i", "l", "y">>,
     maxHeight        |-> <<"m", "a", "x", "H", "e", "i", "g", "h", "t">>,
     containerPadding |-> <<"c", "o", "n", "t", "a", "i", "n", "e", "r", "P", "a", "d", "d", "i", "n", "g">>]

TRUE_TEXT  == <<"t", "r", "u", "e">>
FALSE_TEXT == <<"f", "a", "l", "s", "e">>

FONT_DEFAULT == <<"I", "n", "t", "e", "r", ",", " ", "s", "y", "s", "t", "e", "m", "-", "u", "i">>
FONT_OTHER   == <<"a", " ", "b", "+", "c">>
HEIGHT_DEFAULT == <<"8", "0", "0", "p", "x">>
HEIGHT_OTHER   == <<"5", "0", "%">>

defaultConfig ==
    [calendarUrl      |-> <<>>,
     showTitle        |-> TRUE,
     showPrint        |-> FALSE,
     borderRadius     |-> 12,
     fontFamily       |-> FONT_DEFAULT,
     maxHeight        |-> HEIGHT_DEFAULT,
     containerPadding |-> 0]

\* The values a field is edited to.
FieldValues ==
    [calendarUrl      |-> {<<>>, ID_A, <<"x">>},
     showTitle        |-> BOOLEAN,
     showPrint        |-> BOOLEAN,
     borderRadius     |-> {0, 7, 12},
     fontFamily       |-> {FONT_DEFAULT, FONT_OTHER, <<>>},
     maxHeight        |-> {HEIGHT_DEFAULT, HEIGHT_OTHER, <<>>},
     containerPadding |-> {0, 5}]

\* String(n) for a number n >= 0 without a fraction.
RECURSIVE NumberText(_)
NumberText(n) ==
    IF n < 10 THEN <<DigitChars[n + 1]>>
    ELSE NumberText(n \div 10) \o <<DigitChars[(n % 10) + 1]>>

\* String(value)
StringOf(field, value) ==
    IF field \in booleanFields THEN (IF value THEN TRUE_TEXT ELSE FALSE_TEXT)
    ELSE IF field \in numberFields THEN NumberText(value)
    ELSE value

\* Number(text): the value of a run of digits; NaN otherwise (0 for the
\* empty text).
NaN == -1
RECURSIVE DigitsValue(_)
DigitsValue(text) ==
    IF text = <<>> THEN 0
    ELSE DigitsValue(SubSeq(text, 1, Len(text) - 1)) * 10 + DigitValue(text[Len(text)])
NumberOf(text) ==
    IF \A k \in 1..Len(text) : text[k] \in Digits THEN DigitsValue(text) ELSE NaN

\* The characters that the serializer of URLSearchParams writes as they
\* are, and the escapes of the others that occur.
Letters ==
    {"a", "b", "c", "d", "e", "f", "g", "h", "i", "j", "k", "l", "m",
     "n", "o", "p", "q", "r", "s", "t", "u", "v", "w", "x", "y", "z",
     "A", "B", "C", "D", "E", "F", "G", "H", "I", "J", "K", "L", "M",
     "N", "O", "P", "Q", "R", "S", "T", "U", "V", "W", "X", "Y", "Z"}
Plain == Letters \cup Digits \cup {"*", "-", ".", "_"}
Escapes == {<<"@", <<"%", "4", "0">> >>, <<",", <<"%", "2", "C">> >>,
            <<"%", <<"%", "2", "5">> >>, <<"+", <<"%", "2", "B">> >>,
            <<"&", <<"%", "2", "6">> >>, <<"=", <<"%", "3", "D">> >>}

EncodeChar(c) ==
    IF c \in Plain THEN <<c>>
    ELSE IF c = " " THEN <<"+">>
    ELSE (CHOOSE e \in Escapes : e[1] = c)[2]

\* application/x-www-form-urlencoded serializing of one name or value
RECURSIVE FormEncode(_)
FormEncode(text) ==
    IF text = <<>> THEN <<>> ELSE EncodeChar(Head(text)) \o FormEncode(Tail(text))

\* ... and its decoding: + is a space, %XY the character with that code.
RECURSIVE FormDecode(_)
FormDecode(text) ==
    IF text = <<>> THEN <<>>
    ELSE IF Head(text) = "+" THEN <<" ">> \o FormDecode(Tail(text))
    ELSE IF Len(text) >= 3 /\ \E e \in Escapes : e[2] = SubSeq(text, 1, 3)
         THEN <<(CHOOSE e \in Escapes : e[2] = SubSeq(text, 1, 3))[1]>>
              \o FormDecode(SubSeq(text, 4, Len(text)))
    ELSE <<Head(text)>> \o FormDecode(Tail(text))

\* configToQueryString: new URLSearchParams(entries).toString()
RECURSIVE QueryFrom(_, _)
QueryFrom(c, k) ==
    IF k > Len(FieldOrder) THEN <<>>
    ELSE (IF k > 1 THEN <<"&">> ELSE <<>>)
         \o FormEncode(KeyText[FieldOrder[k]]) \o <<"=">>
         \o FormEncode(StringOf(FieldOrder[k], c[FieldOrder[k]]))
         \o QueryFrom(c, k + 1)
configToQueryString(c) == QueryFrom(c, 1)

\* text.split(sep) for a single character sep
RECURSIVE SplitOn(_, _)
SplitOn(text, sep) ==
    IF IndexOf(text, sep) < 0 THEN <<text>>
    ELSE <<SubSeq(text, 1, IndexOf(text, sep))>>
         \o SplitOn(SubSeq(text, IndexOf(text, sep) + 2, Len(text)), sep)

\* One name=value piece of a query: split at the first =, both decoded.
PairOf(piece) ==
    IF IndexOf(piece, "=") < 0 THEN [name |-> FormDecode(piece), value |-> <<>>]
    ELSE [name  |-> FormDecode(SubSeq(piece, 1, IndexOf(piece, "="))),
          value |-> FormDecode(SubSeq(piece, IndexOf(piece, "=") + 2, Len(piece)))]

\* new URLSearchParams(text): the pairs of the non-empty pieces between &.
URLSearchParams(text) ==
    LET pieces == SelectSeq(SplitOn(text, "&"), LAMBDA piece : piece # <<>>)
    IN  [k \in 1..Len(pieces) |-> PairOf(pieces[k])]

\* query.get(name): the value of the first pair of that name, or null.
QueryGet(query, name) ==
    IF \E k \in 1..Len(query) : query[k].name = name
    THEN TextOf(query[CHOOSE k \in 1..Len(query) :
                   query[k].name = name /\ \A j \in 1..(k - 1) : query[j].name # name].value)
    ELSE Null

\* queryStringToConfig: the fields it sets, each with its value.
queryStringToConfig(query) ==
    [field \in {f \in DOMAIN KeyText : Truthy(QueryGet(query, KeyText[f]), "text")} |->
        LET value == QueryGet(query, KeyText[field]).value IN
        IF field \in booleanFields THEN value = TRUE_TEXT
        ELSE IF field \in numberFields THEN NumberOf(value)
        ELSE value]

\* { ...base, ...parsed }
Merge(base, parsed) ==
    [field \in DOMAIN base |-> IF field \in DOMAIN parsed THEN parsed[field] ELSE base[field]]

ConfigInit ==
    /\ config = defaultConfig
    /\ embedQuery = <<>>
    /\ embedConfig = <<>>
    /\ qpc = "edited"

\* updateConfig({ [field]: value }) while fewer than MaxEdits fields
\* differ from the defaults.
UpdateConfig ==
    /\ qpc \in {"edited", "loaded"}
    /\ \E field \in DOMAIN FieldValues : \E value \in FieldValues[field] :
          /\ value # config[field]
          /\ config' = [config EXCEPT ![field] = value]
          /\ Cardinality({f \in DOMAIN config' : config'[f] # defaultConfig[f]}) <= MaxEdits
    /\ qpc' = "edited"
    /\ UNCHANGED <<embedQuery, embedConfig, pvars, fvars, uvars, lvars, rvars, cvars, wvars, hvars, ovars>>

\* The effect that writes the embed code, for a calendarUrl that gives an
\* id.
GenerateEmbedCode ==
    /\ qpc = "edited"
    /\ config.calendarUrl # <<>> /\ extractCalendarId(config.calendarUrl) # Null
    /\ embedQuery' = configToQueryString(config)
    /\ qpc' = "generated"
    /\ UNCHANGED <<config, embedConfig, pvars, fvars, uvars, lvars, rvars, cvars, wvars, hvars, ovars>>

\* The embed page is opened with the query of the embed code.
LoadEmbed ==
    /\ qpc = "generated"
    /\ embedConfig' = Merge(defaultConfig, queryStringToConfig(URLSearchParams(embedQuery)))
    /\ qpc' = "loaded"
    /\ UNCHANGED <<config, embedQuery, pvars, fvars, uvars, lvars, rvars, cvars, wvars, hvars, ovars>>

ConfigNext == UpdateConfig \/ GenerateEmbedCode \/ LoadEmbed
OthersIdle == ParseIdle /\ FoldIdle /\ TextIdle /\ LayoutIdle /\ RouteIdle /\ CallsIdle
InitConfig == ConfigInit /\ OthersIdle /\ WeekIdle /\ PageIdle /\ OverlayIdle
SpecConfig == InitConfig /\ [][ConfigNext]_vars

\* C30: the embed page opened with the embed code of a configuration
\* renders with that configuration, field for field.
C30_ConfigRoundTrip ==
    qpc = "loaded" => embedConfig = config

----------------------------------------------------------------------------
(* Invocations.  Several invocations of parseICalEvents and of the per-week *)
(* placement run interleaved; each keeps its locals in its own record of   *)
(* calls, as the code declares them inside the function and the callback.  *)

MaxCalls == 2

\* Feed texts handed to parseICalEvents: a committed block, and a block
\* without UID followed by a committed one with a folded start line.
CallFeeds ==
    { JoinLines(<<BEGIN_VEVENT, UidLine(<<"a">>), DtStartDate(TOK_DATE), END_VEVENT>>, <<LF>>),
      JoinLines(<<BEGIN_VEVENT, DtStartDate(TOK_DATE), END_VEVENT,
                  BEGIN_VEVENT, UidLine(<<"b">>), K_DTSTART, <<SP, ":">> \o TOK_DATETIME,
                  END_VEVENT>>, <<LF>>) }

\* Event lists handed to the month view: lists of two events of the pool.
CallEvents ==
    {parseICalEvents(JoinLines(LayoutLines(choice, 1), <<LF>>)) :
        choice \in {<<1, 2>>, <<2, 6>>}}

\* The week rows of June 2025 that hold 10 June and 17 June.
CallWeeks == {calendarWeeksOf(GetFullYear(NowDate), GetMonth(NowDate))[w] : w \in {2, 3}}

\* An invocation of parseICalEvents that starts with the events the
\* invocation before it has collected.
EnterParseSharedEvents(cs, feed) ==
    [kind |-> "parse", icalData |-> feed, lines |-> SplitLines(feed), i |-> 0,
     currentEvent |-> NoEvent,
     events |-> IF cs = <<>> THEN <<>> ELSE cs[Len(cs)].events,
     week |-> <<>>, weekEvents |-> <<>>, visited |-> 0,
     eventRows |-> {}, eventPlacements |-> <<>>, pc |-> "loop"]

\* The locals of parseICalEvents at the start of its loop; cs, the
\* invocations so far, has no part in them.
EnterParse(cs, feed) ==
    [kind |-> "parse", icalData |-> feed, lines |-> SplitLines(feed), i |-> 0,
     currentEvent |-> NoEvent, events |-> <<>>,
     week |-> <<>>, weekEvents |-> <<>>, visited |-> 0,
     eventRows |-> {}, eventPlacements |-> <<>>, pc |-> "loop"]

\* The locals of the week callback before weekEvents.forEach.
EnterPlace(cs, evs, week) ==
    [kind |-> "place", icalData |-> <<>>, lines |-> <<>>, i |-> 0,
     currentEvent |-> NoEvent, events |-> evs,
     week |-> week,
     weekEvents |-> getWeekEvents(evs, firstDayOfWeek(week), lastDayOfWeek(week)),
     visited |-> 0, eventRows |-> {}, eventPlacements |-> <<>>, pc |-> "place"]

\* One pass of the loop of parseICalEvents on the locals of one invocation.
StepParse(c) ==
    [c EXCEPT !.currentEvent = ParseLine([cur |-> c.currentEvent, evs |-> c.events],
                                         LogicalLine(c.lines, c.i + 1)).cur,
              !.events       = ParseLine([cur |-> c.currentEvent, evs |-> c.events],
                                         LogicalLine(c.lines, c.i + 1)).evs,
              !.i            = ContinuationEnd(c.lines, c.i + 1)]

\* One call of the forEach callback on the locals of one invocation.
StepPlace(c) ==
    LET event    == c.weekEvents[c.visited + 1]
        startCol == StartColOf(event, c.week)
        span     == SpanOf(event, c.week)
        row      == FirstFreeRow(c.eventRows, startCol, span)
    IN  IF span = 0 THEN [c EXCEPT !.visited = @ + 1]
        ELSE [c EXCEPT !.visited = @ + 1,
                       !.eventRows = @ \cup {<<row, col>> : col \in ColumnRange(startCol, span)},
                       !.eventPlacements = Append(@,
                           [event |-> event, startCol |-> startCol, span |-> span, row |-> row])]

CallsInit ==
    /\ ParseIdle
    /\ tzOffset \in TimeZones /\ now = NowDate /\ currentDate = now
    /\ weekIndex = 0 /\ weekEvents = <<>> /\ visited = 0
    /\ eventRows = {} /\ eventPlacements = <<>> /\ lpc = "idle"
    /\ calls = <<>>

\* parseICalEvents is called.
CallParse ==
    /\ Len(calls) < MaxCalls
    /\ \E feed \in CallFeeds : calls' = Append(calls, EnterParse(calls, feed))
    /\ UNCHANGED <<pvars, fvars, uvars, lvars, rvars, xvars>>

\* The week callback is called.
CallPlace ==
    /\ Len(calls) < MaxCalls
    /\ \E evs \in CallEvents, week \in CallWeeks :
           calls' = Append(calls, EnterPlace(calls, evs, week))
    /\ UNCHANGED <<pvars, fvars, uvars, lvars, rvars, xvars>>

\* An invocation of parseICalEvents handles its next logical line.
CallParseStep ==
    /\ \E k \in 1..Len(calls) :
           /\ calls[k].kind = "parse" /\ calls[k].pc = "loop"
           /\ calls[k].i < Len(calls[k].lines)
           /\ calls' = [calls EXCEPT ![k] = StepParse(@)]
    /\ UNCHANGED <<pvars, fvars, uvars, lvars, rvars, xvars>>

\* An invocation of parseICalEvents returns.
CallParseReturn ==
    /\ \E k \in 1..Len(calls) :
           /\ calls[k].kind = "parse" /\ calls[k].pc = "loop"
           /\ calls[k].i >= Len(calls[k].lines)
           /\ calls' = [calls EXCEPT ![k].pc = "done"]
    /\ UNCHANGED <<pvars, fvars, uvars, lvars, rvars, xvars>>

\* An invocation of the week callback handles its next event.
CallPlaceStep ==
    /\ \E k \in 1..Len(calls) :
           /\ calls[k].kind = "place" /\ calls[k].pc = "place"
           /\ calls[k].visited < Len(calls[k].weekEvents)
           /\ calls' = [calls EXCEPT ![k] = StepPlace(@)]
    /\ UNCHANGED <<pvars, fvars, uvars, lvars, rvars, xvars>>

\* An invocation of the week callback has placed its events.
CallPlaceReturn ==
    /\ \E k \in 1..Len(calls) :
           /\ calls[k].kind = "place" /\ calls[k].pc = "place"
           /\ calls[k].visited = Len(calls[k].weekEvents)
           /\ calls' = [calls EXCEPT ![k].pc = "done"]
    /\ UNCHANGED <<pvars, fvars, uvars, lvars, rvars, xvars>>

CallsNext ==
    \/ CallParse
    \/ CallPlace
    \/ CallParseStep
    \/ CallParseReturn
    \/ CallPlaceStep
    \/ CallPlaceReturn

InitCalls == CallsInit /\ FoldIdle /\ TextIdle /\ RouteIdle /\ ExtraIdle
SpecCalls == InitCalls /\ [][CallsNext]_vars

\* The arguments of an invocation.
SameInput(a, b) ==
    /\ a.kind = b.kind
    /\ a.kind = "parse" => a.icalData = b.icalData
    /\ a.kind = "place" => a.events = b.events /\ a.week = b.week

----------------------------------------------------------------------------
(* Line folding: one line of a feed is split in two physical lines, the    *)
(* second starting with one extra space or tab, and both texts are parsed. *)
MaxFoldBlocks == 1

\* The blocks that carry their UID: folding is about lines, not about defects.
FoldKinds == {kind \in BlockKinds : kind.content.uid = "own"}

FoldFeeds ==
    {JoinLines(FeedLines(kinds, 1), eol) :
        kinds \in UNION {[1..n -> FoldKinds] : n \in 0..MaxFoldBlocks}, eol \in EndOfLines}

\* A split point inside a line: between two characters of the same line.
InsideLine(text, k) ==
    /\ k \in 1..(Len(text) - 1)
    /\ text[k] \notin {CR, LF} /\ text[k + 1] \notin {CR, LF}

FoldAt(text, k, eol, ws) ==
    SubSeq(text, 1, k) \o eol \o <<ws>> \o SubSeq(text, k + 1, Len(text))

FoldInit ==
    /\ icalData \in FoldFeeds
    /\ lines = <<>> /\ i = 0 /\ currentEvent = NoEvent /\ events = <<>> /\ pc = "text"
    /\ FoldIdle

\* Fold the feed at one point and parse the folded and the unfolded text.
FoldAndParse ==
    /\ pc = "text"
    /\ \E k \in 1..Len(icalData), eol \in EndOfLines, ws \in {SP, TAB} :
          /\ InsideLine(icalData, k)
          /\ folded' = FoldAt(icalData, k, eol, ws)
          /\ foldedEvents' = parseICalEvents(FoldAt(icalData, k, eol, ws))
    /\ events' = parseICalEvents(icalData)
    /\ pc' = "parsed"
    /\ UNCHANGED <<icalData, lines, i, currentEvent, uvars, lvars, rvars, cvars, xvars>>

FoldNext == FoldAndParse
InitFold == FoldInit /\ TextIdle /\ LayoutIdle /\ RouteIdle /\ CallsIdle /\ ExtraIdle
SpecFold == InitFold /\ [][FoldNext]_vars

\* C6: parsing a feed with one of its lines folded yields the same events,
\* in the same order, as parsing the unfolded feed.
C6_FoldedParsesAlike == pc = "parsed" => foldedEvents = events

\* A feed with a committed event, folded in the middle of the DTSTART key
\* or in the middle of the value of the line.
C6_Witness ==
    /\ pc = "parsed" /\ Len(events) = 1 /\ foldedEvents = events
    /\ \E n \in 1..Len(SplitLines(folded)) :
          LET l == SplitLines(folded)[n]
          IN  \/ l = <<"D", "T", "S">>
              \/ /\ StartsWith(l, K_DTSTART) /\ l[Len(l)] \in {"0", "1", "2", "5"}
                 /\ Len(l) < Len(DtStartTime(TOK_DATETIME))

----------------------------------------------------------------------------
(* Text escaping of the feed (RFC 5545 TEXT values) and unescapeICalText.  *)
MaxTextLen == 3

TextChars == {BS, "n", ",", ";", LF, "a"}
Texts == UNION {[1..n -> TextChars] : n \in 0..MaxTextLen}

\* The feed's escaping: backslash as two backslashes, newline as
\* backslash-n, comma as backslash-comma, semicolon as backslash-semicolon.
RECURSIVE EscapeText(_)
EscapeText(t) ==
    IF t = <<>> THEN <<>>
    ELSE (CASE Head(t) = BS  -> <<BS, BS>>
            [] Head(t) = LF  -> <<BS, "n">>
            [] Head(t) = "," -> <<BS, ",">>
            [] Head(t) = ";" -> <<BS, ";">>
            [] OTHER         -> <<Head(t)>>) \o EscapeText(Tail(t))

TextInit ==
    /\ plain \in Texts /\ escaped = <<>> /\ unescaped = <<>> /\ upc = "plain"

\* The feed producer writes the text.
Escape ==
    /\ upc = "plain"
    /\ escaped' = EscapeText(plain)
    /\ upc' = "escaped"
    /\ UNCHANGED <<plain, unescaped, pvars, fvars, lvars, rvars, cvars, xvars>>

\* The parser reads it back (case SUMMARY, DESCRIPTION, LOCATION).
Unescape ==
    /\ upc = "escaped"
    /\ unescaped' = unescapeICalText(escaped)
    /\ upc' = "unescaped"
    /\ UNCHANGED <<plain, escaped, pvars, fvars, lvars, rvars, cvars, xvars>>

TextNext == Escape \/ Unescape
InitText == ParseIdle /\ FoldIdle /\ LayoutIdle /\ RouteIdle /\ CallsIdle /\ TextInit /\ ExtraIdle
SpecText == InitText /\ [][TextNext]_vars

\* C7: unescaping the escaped form of a text returns the text.
C7_UnescapeInvertsEscape == upc = "unescaped" => unescaped = plain

----------------------------------------------------------------------------
(* The block structure of a feed, read off its logical lines without the   *)
(* parser: used to state what the parser must do with each block.          *)

\* The logical lines already consumed by the loop.
Processed == LogicalLines(SubSeq(lines, 1, i))

\* The whole feed as logical lines.
AllLogical == LogicalLines(lines)

\* The text before the first ':' of a line, up to its first ';'.
KeyOfLine(line) ==
    LET stops == {k \in 1..Len(line) : line[k] = ":"}
        colon == IF stops = {} THEN 0 ELSE CHOOSE k \in stops : \A j \in stops : k <= j
        head  == SubSeq(line, 1, colon - 1)
        semis == {k \in 1..Len(head) : head[k] = ";"}
    IN  IF colon <= 1 THEN <<>>
        ELSE IF semis = {} THEN head
        ELSE SubSeq(head, 1, (CHOOSE k \in semis : \A j \in semis : k <= j) - 1)

\* The text after the first ':' of a line.
ValueOfLine(line) ==
    LET stops == {k \in 1..Len(line) : line[k] = ":"}
    IN  IF stops = {} THEN <<>>
        ELSE SubSeq(line, (CHOOSE k \in stops : \A j \in stops : k <= j) + 1, Len(line))

\* Some line of ll has the key, and (when needValue) a non-empty value.
HasField(ll, key, needValue) ==
    \E n \in 1..Len(ll) :
        /\ ~IsBegin(ll[n]) /\ ~IsEnd(ll[n])
        /\ KeyOfLine(ll[n]) = key
        /\ (needValue => ValueOfLine(ll[n]) # <<>>)

\* The last line of a block that begins at logical line b of ll: the first
\* END:VEVENT after b, or the line before the next BEGIN:VEVENT, or the end.
BlockLast(ll, b) ==
    LET marks == {e \in (b + 1)..Len(ll) : IsBegin(ll[e]) \/ IsEnd(ll[e])}
        e     == CHOOSE x \in marks : \A y \in marks : x <= y
    IN  IF marks = {} THEN Len(ll)
        ELSE IF IsBegin(ll[e]) THEN e - 1 ELSE e

BlockOf(ll, b) == SubSeq(ll, b, BlockLast(ll, b))

Terminated(ll, b) ==
    LET e == BlockLast(ll, b) IN e > b /\ ~IsBegin(ll[e]) /\ IsEnd(ll[e])

\* A malformed block: no UID value, no DTSTART line, or no END:VEVENT before
\* the next BEGIN:VEVENT.
Malformed(ll, b) ==
    \/ ~Terminated(ll, b)
    \/ ~HasField(BlockOf(ll, b), K_UID, TRUE)
    \/ ~HasField(BlockOf(ll, b), K_DTSTART, FALSE)

BlockStarts(ll) == {b \in 1..Len(ll) : IsBegin(ll[b])}

\* The events of every block parsed on its own, in feed order.
RECURSIVE EventsBlockwise(_, _)
EventsBlockwise(ll, b) ==
    IF b > Len(ll) THEN <<>>
    ELSE IF IsBegin(ll[b]) THEN ParseLines(BlockOf(ll, b)) \o EventsBlockwise(ll, b + 1)
    ELSE EventsBlockwise(ll, b + 1)

\* The fields of the block open at the current position: the consumed lines
\* after the last BEGIN:VEVENT.
OpenBlockFields ==
    LET bs == BlockStarts(Processed)
    IN  IF bs = {} THEN <<>>
        ELSE SubSeq(Processed, (CHOOSE b \in bs : \A c \in bs : c <= b) + 1, Len(Processed))

----------------------------------------------------------------------------
\* C3: every event of the output list has a non-empty id and a start, and the
\* list grows only when the block being closed has a UID line with a
\* non-empty value and a DTSTART line.
C3_CommittedHaveIdAndStart ==
    /\ [](\A n \in 1..Len(events) :
            events[n].id # <<>> /\ events[n].start.kind # "undefined")
    /\ [][Len(events') > Len(events) =>
            /\ HasField(OpenBlockFields, K_UID, TRUE)
            /\ HasField(OpenBlockFields, K_DTSTART, FALSE)]_vars

\* A finished parse of two delimited blocks of which one was committed and
\* the other dropped at its END:VEVENT.
C3_Witness ==
    /\ pc = "done" /\ Len(events) = 1
    /\ Cardinality(BlockStarts(AllLogical)) = 2
    /\ \A b \in BlockStarts(AllLogical) : Terminated(AllLogical, b)
    /\ \E b \in BlockStarts(AllLogical) : Malformed(AllLogical, b)

\* C4: the output list grows only in a step that processes an END:VEVENT
\* line while a block is open, and a feed in which no BEGIN:VEVENT line is
\* followed by an END:VEVENT line yields the empty list.
C4_AppendOnlyAtEnd ==
    /\ [][Len(events') > Len(events) =>
            /\ IsEnd(Line) /\ currentEvent.open
            /\ Len(events') = Len(events) + 1
            /\ SubSeq(events', 1, Len(events)) = events]_vars
    /\ []((pc = "done" /\ \A b \in BlockStarts(AllLogical) :
                              \A e \in (b + 1)..Len(AllLogical) : ~IsEnd(AllLogical[e]))
            => events = <<>>)

\* A finished parse of a feed that opens a block with an id and a start and
\* never closes it.
C4_Witness ==
    /\ pc = "done" /\ events = <<>>
    /\ currentEvent.open /\ Committable(currentEvent)
    /\ \A n \in 1..Len(AllLogical) : ~IsEnd(AllLogical[n])

\* C5: the output is the concatenation, in feed order, of what each block
\* yields when parsed alone, and a malformed block yields nothing: it adds no
\* event and leaves the events of the other blocks as they are.
C5_MalformedBlockIsolated ==
    pc = "done" =>
        /\ events = EventsBlockwise(AllLogical, 1)
        /\ \A b \in BlockStarts(AllLogical) :
               Malformed(AllLogical, b) => ParseLines(BlockOf(AllLogical, b)) = <<>>

\* A finished parse with a malformed block that carries fields, followed by
\* a block that was committed.
C5_Witness ==
    /\ pc = "done" /\ Len(events) = 1
    /\ \E b \in BlockStarts(AllLogical) :
          /\ Malformed(AllLogical, b)
          /\ HasField(BlockOf(AllLogical, b), K_DTSTART, FALSE)
          /\ \E c \in BlockStarts(AllLogical) : c > b /\ ~Malformed(AllLogical, c)

\* C8: for every event of the output list, allDay is true exactly when
\* start holds a calendar date.
C8_AllDayIffStartIsDate ==
    \A n \in 1..Len(events) : events[n].allDay <=> events[n].start.kind = "date"

----------------------------------------------------------------------------
(* Field values.  parseICalEvents on calendars whose blocks differ in the  *)
(* values of SUMMARY, DTSTART, DTEND and UID.                              *)

MaxFieldBlocks == 2

SummaryLine(v)  == K_SUMMARY \o <<":">> \o v

\* Eight digits that name no day: month 13, day 41.
TOK_NO_DAY == <<"2", "0", "2", "5", "1", "3", "4", "1">>

\* The parameter that marks a value as a date with time.
VALUE_DATE_TIME == VALUE_DATE \o <<"-", "T", "I", "M", "E">>

\* The field lines of a block: without SUMMARY, with an empty, a blank and
\* an escaped SUMMARY value; with DTSTART values that are no date token and
\* no date-time token; with such DTEND values; with another UID and date-time values, bare or marked VALUE=DATE-TIME,
\* or a date value on a line without parameter; without UID.
FieldBlocks ==
    { <<UidLine(<<"a">>), DtStartDate(TOK_DATE)>>,
      <<UidLine(<<"a">>), SummaryLine(<<>>), DtStartDate(TOK_DATE)>>,
      <<UidLine(<<"a">>), SummaryLine(<<SP>>), DtStartDate(TOK_DATE)>>,
      <<UidLine(<<"a">>), SummaryLine(<<"x", BS, ",", "y">>), DtStartDate(TOK_DATE)>>,
      <<UidLine(<<"a">>), DtStartDate(<<"x">>)>>,
      <<UidLine(<<"a">>), DtStartDate(TOK_NO_DAY)>>,
      <<UidLine(<<"a">>), DtStartTime(<<"x">>)>>,
      <<UidLine(<<"a">>), DtStartDate(TOK_DATE), DtEndDate(<<"x">>)>>,
      <<UidLine(<<"a">>), DtStartDate(TOK_DATE), DtEndTime(<<"x">>)>>,
      <<UidLine(<<"b">>), DtStartDate(TOK_DATE)>>,
      <<UidLine(<<"b">>), DtStartTime(TOK_DATETIME), DtEndTime(TOK_DATETIME)>>,
      <<UidLine(<<"b">>), K_DTSTART \o <<";">> \o VALUE_DATE_TIME \o <<":">> \o TOK_DATETIME,
        K_DTEND \o <<";">> \o VALUE_DATE_TIME \o <<":">> \o TOK_DATETIME>>,
      <<UidLine(<<"b">>), DtStartTime(TOK_DATE)>>,
      <<DtStartDate(TOK_DATE)>> }

RECURSIVE FieldLines(_, _)
FieldLines(blocks, j) ==
    IF j > Len(blocks) THEN <<>>
    ELSE <<BEGIN_VEVENT>> \o blocks[j] \o <<END_VEVENT>> \o FieldLines(blocks, j + 1)

FieldFeeds ==
    {JoinLines(<<BEGIN_VCALENDAR>> \o FieldLines(blocks, 1) \o <<END_VCALENDAR>>, <<LF>>) :
        blocks \in UNION {[1..n -> FieldBlocks] : n \in 0..MaxFieldBlocks}}

FieldsInit ==
    /\ icalData \in FieldFeeds
    /\ lines = SplitLines(icalData)
    /\ i = 0
    /\ currentEvent = NoEvent
    /\ events = <<>>
    /\ pc = "loop"

InitFields == FieldsInit /\ FoldIdle /\ TextIdle /\ LayoutIdle /\ RouteIdle /\ CallsIdle /\ ExtraIdle
SpecFields == InitFields /\ [][ParseNext]_vars

\* A text of white space only, the empty text included.
Blank(text) == \A k \in 1..Len(text) : text[k] \in {SP, TAB, LF, CR}

\* The value of the last SUMMARY line of a block.
SummaryOf(block) ==
    ValueOfLine(block[CHOOSE n \in 1..Len(block) :
        /\ KeyOfLine(block[n]) = K_SUMMARY
        /\ \A m \in (n + 1)..Len(block) : KeyOfLine(block[m]) # K_SUMMARY])

\* C16: every returned event has a non-blank title: the placeholder when its
\* block has no SUMMARY line or a blank SUMMARY value, the unescaped SUMMARY
\* value otherwise.
C16_TitleNeverBlank ==
    pc = "done" =>
        /\ \A n \in 1..Len(events) : ~Blank(events[n].title)
        /\ \A b \in BlockStarts(AllLogical) :
               LET block == BlockOf(AllLogical, b)
                   evs   == ParseLines(block)
               IN  \A n \in 1..Len(evs) :
                       evs[n].title =
                           IF ~HasField(block, K_SUMMARY, FALSE) THEN UntitledEvent
                           ELSE IF Blank(SummaryOf(block)) THEN UntitledEvent
                           ELSE unescapeICalText(SummaryOf(block))

\* The last line of a block with the key.
LastLineOf(block, key) ==
    block[CHOOSE n \in 1..Len(block) :
        /\ KeyOfLine(block[n]) = key
        /\ \A m \in (n + 1)..Len(block) : KeyOfLine(block[m]) # key]

\* YYYYMMDD naming a day of the calendar.
ValidDateToken(v) ==
    /\ Len(v) = 8 /\ AllDigits(v)
    /\ ToNumber(SubSeq(v, 5, 6)) \in 1..12
    /\ ToNumber(SubSeq(v, 7, 8)) \in
           1..DaysOfMonth(ToNumber(SubSeq(v, 1, 4)), ToNumber(SubSeq(v, 5, 6)))

\* YYYYMMDDTHHMMSS with an optional Z.
ValidDateTimeToken(v) ==
    /\ Len(v) \in {15, 16}
    /\ ValidDateToken(SubSeq(v, 1, 8))
    /\ v[9] = "T" /\ AllDigits(SubSeq(v, 10, 15))
    /\ ToNumber(SubSeq(v, 10, 11)) < 24
    /\ ToNumber(SubSeq(v, 12, 13)) < 60
    /\ ToNumber(SubSeq(v, 14, 15)) < 60
    /\ Len(v) = 16 => v[16] = "Z"

\* The value of a DTSTART or DTEND line is a token of the kind the line
\* announces.
ValidToken(line) ==
    IF Includes(Slice(line, 0, IndexOf(line, ":")), VALUE_DATE)
    THEN ValidDateToken(ValueOfLine(line))
    ELSE ValidDateTimeToken(ValueOfLine(line))

\* C17: a block whose DTSTART value is no valid date or date-time token
\* yields no event, and an event whose block has an invalid DTEND value has
\* no end.
C17_InvalidTokenIsAbsence ==
    pc = "done" =>
        \A b \in BlockStarts(AllLogical) :
            LET block == BlockOf(AllLogical, b)
                evs   == ParseLines(block)
            IN  /\ (HasField(block, K_DTSTART, FALSE)
                        /\ ~ValidToken(LastLineOf(block, K_DTSTART))) => evs = <<>>
                /\ (HasField(block, K_DTEND, FALSE)
                        /\ ~ValidToken(LastLineOf(block, K_DTEND)))
                       => \A n \in 1..Len(evs) : evs[n].end = Undefined

\* C18: no two events of the returned list have the same id.
C18_IdsUnique ==
    pc = "done" =>
        \A m, n \in 1..Len(events) : events[m].id = events[n].id => m = n

\* The parameters of a line: the texts between the semicolons of the part
\* before the first colon, after the key.
ParamsOf(line) ==
    LET head  == Slice(line, 0, IndexOf(line, ":"))
        seps  == {k \in 1..Len(head) : head[k] = ";"} \cup {Len(head) + 1}
        after(a) == CHOOSE b \in seps : b > a /\ \A m \in seps : m <= a \/ b <= m
    IN  {SubSeq(head, a + 1, after(a) - 1) : a \in {k \in seps : k <= Len(head)}} \ {<<>>}

\* The line marks its value as a bare date.
MarkedBareDate(line) == VALUE_DATE \in ParamsOf(line)

\* C23: the start of an event is a calendar date, and allDay is true,
\* exactly when the DTSTART line of its block carries the parameter
\* VALUE=DATE; its end is a calendar date exactly when the DTEND line does;
\* a line marked VALUE=DATE-TIME or without VALUE yields an instant.
C23_DateIffMarkedBareDate ==
    pc = "done" =>
        \A b \in BlockStarts(AllLogical) :
            LET block == BlockOf(AllLogical, b)
                evs   == ParseLines(block)
            IN  \A n \in 1..Len(evs) :
                    /\ evs[n].start.kind = "date" <=> MarkedBareDate(LastLineOf(block, K_DTSTART))
                    /\ evs[n].allDay <=> MarkedBareDate(LastLineOf(block, K_DTSTART))
                    /\ HasField(block, K_DTEND, FALSE) =>
                           (evs[n].end.kind = "date" <=> MarkedBareDate(LastLineOf(block, K_DTEND)))

\* YYYY-MM-DD from the digits of a token.
DashedDate(v) == SubSeq(v, 1, 4) \o <<"-">> \o SubSeq(v, 5, 6) \o <<"-">> \o SubSeq(v, 7, 8)

\* HH:MM:SS from the digits of a date-time token.
ColonTime(v) == SubSeq(v, 10, 11) \o <<":">> \o SubSeq(v, 12, 13) \o <<":">> \o SubSeq(v, 14, 15)

\* The boundary the shape of a valid token stands for.
BoundaryOfToken(v) ==
    IF ValidDateToken(v) THEN DateOf(DashedDate(v))
    ELSE DateTimeOf(DashedDate(v) \o <<"T">> \o ColonTime(v)
                    \o (IF v[Len(v)] = "Z" THEN <<"Z">> ELSE <<>>))

\* C24: a DTSTART or DTEND value of eight digits is stored as the calendar
\* date YYYY-MM-DD, and a value YYYYMMDDTHHMMSS with an optional Z as the
\* instant with the same digits, marked UTC exactly when the token ends in Z.
C24_EncodingFollowsTokenShape ==
    pc = "done" =>
        \A b \in BlockStarts(AllLogical) :
            LET block == BlockOf(AllLogical, b)
                evs   == ParseLines(block)
                valid(key) ==
                    /\ HasField(block, key, FALSE)
                    /\ \/ ValidDateToken(ValueOfLine(LastLineOf(block, key)))
                       \/ ValidDateTimeToken(ValueOfLine(LastLineOf(block, key)))
            IN  \A n \in 1..Len(evs) :
                    /\ valid(K_DTSTART) =>
                           evs[n].start = BoundaryOfToken(ValueOfLine(LastLineOf(block, K_DTSTART)))
                    /\ valid(K_DTEND) =>
                           evs[n].end = BoundaryOfToken(ValueOfLine(LastLineOf(block, K_DTEND)))

\* A block is open after the first n logical lines of ll.
RECURSIVE OpenAfter(_, _)
OpenAfter(ll, n) ==
    IF n = 0 THEN FALSE
    ELSE IF IsBegin(ll[n]) THEN TRUE
    ELSE IF IsEnd(ll[n]) THEN FALSE
    ELSE OpenAfter(ll, n - 1)

\* The lines outside any block: no block is open before them and they open
\* none.
OutsideLines(ll) == {n \in 1..Len(ll) : ~OpenAfter(ll, n - 1) /\ ~IsBegin(ll[n])}

\* ll without its lines outside any block.
RECURSIVE WithoutOutside(_, _)
WithoutOutside(ll, n) ==
    IF n > Len(ll) THEN <<>>
    ELSE (IF n \in OutsideLines(ll) THEN <<>> ELSE <<ll[n]>>) \o WithoutOutside(ll, n + 1)

\* C25: the events of a feed are those of the feed without its lines
\* outside any block, and a step over a line outside any block leaves the
\* output list unchanged and opens no block.
C25_OutsideLinesIgnored ==
    /\ [](pc = "done" => events = ParseLines(WithoutOutside(AllLogical, 1)))
    /\ [][(pc = "loop" /\ i < Len(lines) /\ ~currentEvent.open /\ ~IsBegin(Line))
             => (events' = events /\ currentEvent' = currentEvent)]_vars

\* A finished parse with one event of a feed that has, outside any block,
\* a UID line, a DTSTART line and an END:VEVENT line.
C25_Witness ==
    /\ pc = "done" /\ Len(events) = 1
    /\ \E u, d, e \in OutsideLines(AllLogical) :
          /\ KeyOfLine(AllLogical[u]) = K_UID /\ ValueOfLine(AllLogical[u]) # <<>>
          /\ KeyOfLine(AllLogical[d]) = K_DTSTART
          /\ IsEnd(AllLogical[e])

====
